---------------------------- MODULE Spec2Model ----------------------------
(***************************************************************************)
(* A model of the Yaf compiler (Lexharden/Yaf): the type checker            *)
(* (core/typechecker.rs), the textual C backend (backend/c.rs) and the      *)
(* native LLVM backend (backend/llvm.rs), together with the execution of    *)
(* the code the two backends emit.                                          *)
(*                                                                          *)
(* Abstract syntax (core/ast.rs) is encoded as records:                     *)
(*   Block            a sequence of statements (Block.statements)           *)
(*   Option<T>        a sequence of length 0 (None) or 1 (Some)             *)
(*   Type             the string Type::to_string produces                   *)
(*   Value (literal)  [tag, i, s]: the variant, its integer payload and     *)
(*                    its string payload                                    *)
(***************************************************************************)
EXTENDS Integers, Sequences, FiniteSets, TLC

VARIABLES
    program,        \* the Program under compilation: [functions, main]
    \* ---- TypeChecker (core/typechecker.rs) ----
    tcPhase,        \* position inside TypeChecker::check
    tcVariables,    \* TypeChecker.variables
    tcFunctions,    \* TypeChecker.functions
    tcReturnType,   \* TypeChecker.current_function_return_type
    tcWork,         \* what check_block / check_statement still has to do
    tcFnIdx,        \* index of the next function check() hands to check_function
    tcErr,          \* Option<YafError>: the error check() returned, if any
    tcScopes,       \* history: names declared in each open lexical scope
    tcExited,       \* history: names declared in scopes that have been left
    tcLast,         \* history: the last Declaration check_statement handled
    \* ---- LLVMCodeGenerator (backend/llvm.rs) ----
    llPhase,        \* position inside LLVMCodeGenerator::generate and the driver
    llvm,           \* the LLVMCodeGenerator: its fields, the module and the builder
    \* ---- execution of the module the native backend built ----
    llStack,        \* call stack: frames [fn, bb, pc, values, params, locals]
    llGlobals,      \* the Value each global variable holds
    llHeap,         \* number of strings allocated so far (the next address)
    llArrays,       \* the memory of each array allocated: address -> elements
    llOut,          \* the text written to standard output
    llSteps,        \* instructions executed
    llEvents,       \* history: last implicit return, division by zero, string add
    \* ---- CodeGenerator (backend/c.rs), clang and the executable ----
    cPhase,         \* position inside the driver of the C backend
    cgen,           \* the CodeGenerator: its fields
    cBuild,         \* what the C compiler made of the generated file
    cRun,           \* execution of main: [pc, env, fuel]
    cOut,           \* the text written to standard output
    cEvents,        \* history: as llEvents
    \* ---- one function of the runtime applied on its own ----
    unit,           \* [fn, args, results]: the call and what each backend's
                    \* function returned
    \* ---- the command line driver (main.rs) ----
    driver,         \* [command, backend, the flags, pc, files, compiled, child,
                    \* exit]: the invocation, the artifacts in the output
                    \* directory, what compile_program returned, how the
                    \* executed program ended and the exit status of the process
    \* ---- Parser (core/parser.rs) ----
    parser,         \* [tokens, current, pc, statements, err, last]: the
                    \* Parser inside parse_block
    \* ---- the runtime's memory management (runtime/gc.rs, runtime/memory.rs) ----
    gc,             \* the GarbageCollector, its two mutexes and the threads
                    \* that call it
    pool            \* the MemoryPool and the blocks its callers hold

rtVars == <<parser, gc, pool>>

tcVars == <<tcPhase, tcVariables, tcFunctions, tcReturnType, tcWork, tcFnIdx,
            tcErr, tcScopes, tcExited, tcLast>>

llVars == <<llPhase, llvm, llStack, llGlobals, llHeap, llArrays, llOut, llSteps,
           llEvents>>

cVars == <<cPhase, cgen, cBuild, cRun, cOut, cEvents>>

\* what the type checker never touches
tcEnv == <<program, rtVars, unit, driver, llVars, cVars>>

vars == <<program, rtVars, unit, driver, tcVars, llVars, cVars>>

---------------------------------------------------------------------------
(* Bounds of the model *)

\* statements in a nested block of the type checker's input programs
MaxBlockLen == 1

\* Widths of the integers, scaled down: i64 (Value::Int, the data field of
\* the native Value) and the C type int (int_val of yaf_value_t, the
\* parameter of yaf_make_int in the generated file)
I64Bits == 5

IntBits == 3

\* n in two's complement on so many bits
WrapInt(n, bits) == ((n + 2^(bits - 1)) % 2^bits) - 2^(bits - 1)

InRange(n, bits) == n \in -(2^(bits - 1))..(2^(bits - 1) - 1)

---------------------------------------------------------------------------
(* HashMap<String, T> as a function whose domain is the set of keys *)

EmptyMap == [n \in {} |-> 0]

MapPut(m, key, val) ==
    [n \in (DOMAIN m) \cup {key} |-> IF n = key THEN val ELSE m[n]]

MapHas(m, key) == key \in DOMAIN m

---------------------------------------------------------------------------
(* core/ast.rs, runtime/values.rs *)

ValInt(n)    == [tag |-> "Int",    i |-> n, s |-> ""]
ValBool(b)   == [tag |-> "Bool",   i |-> IF b THEN 1 ELSE 0, s |-> ""]
ValString(t) == [tag |-> "String", i |-> 0, s |-> t]

Literal(v)              == [k |-> "Literal", value |-> v]
Variable(name)          == [k |-> "Variable", name |-> name]
FunctionCall(name, as)  == [k |-> "FunctionCall", name |-> name, arguments |-> as]
BinaryOp(l, op, r)      == [k |-> "BinaryOp", left |-> l, operator |-> op, right |-> r]
UnaryOp(op, e)          == [k |-> "UnaryOp", operator |-> op, operand |-> e]
ArrayLiteral(es)        == [k |-> "ArrayLiteral", elements |-> es]
ArrayAccess(a, i)       == [k |-> "ArrayAccess", array |-> a, index |-> i]
BuiltinCall(name, as)   == [k |-> "BuiltinCall", name |-> name, arguments |-> as]

Declaration(name, t, e) == [k |-> "Declaration", name |-> name, var_type |-> t, value |-> e]
Assignment(name, e)     == [k |-> "Assignment", name |-> name, value |-> e]
ArrayAssignment(name, i, e) ==
    [k |-> "ArrayAssignment", name |-> name, index |-> i, value |-> e]
If(c, th, el)           == [k |-> "If", condition |-> c, then_block |-> th, else_block |-> el]
While(c, b)             == [k |-> "While", condition |-> c, body |-> b]
For(i, c, inc, b)       == [k |-> "For", init |-> i, condition |-> c, increment |-> inc, body |-> b]
Return(v)               == [k |-> "Return", value |-> v]
ExpressionStmt(e)       == [k |-> "Expression", expr |-> e]

Parameter(name, t)      == [name |-> name, param_type |-> t]
Function(name, ps, rt, body) ==
    [name |-> name, parameters |-> ps, return_type |-> rt, body |-> body]
Program(fs, main)       == [functions |-> fs, main |-> main]

None    == <<>>
Some(x) == <<x>>

IntLit(n)  == Literal(ValInt(n))
BoolLit(b) == Literal(ValBool(b))
StrLit(t)  == Literal(ValString(t))

---------------------------------------------------------------------------
(* TypeChecker::check_expression (core/typechecker.rs)                      *)
(* Result<Type> is [ok, type, err].                                         *)

TOk(t)    == [ok |-> TRUE,  type |-> t,  err |-> ""]
TErr(err) == [ok |-> FALSE, type |-> "", err |-> err]

IsNumeric(t) == t \in {"int", "float"}

\* Type::Array(element_type), written as Type::to_string writes it; the
\* programs of the model have no array of arrays
ArrayType(element_type) == "array[" \o element_type \o "]"

ScalarTypes == {"int", "float", "string", "bool", "void"}

IsArrayType(t) == \E e \in ScalarTypes : t = ArrayType(e)

ElementType(t) == CHOOSE e \in ScalarTypes : t = ArrayType(e)

BinaryOpType(operator, left_type, right_type) ==
    CASE operator = "Add" ->
            IF left_type = "int" /\ right_type = "int" THEN TOk("int")
            ELSE IF IsNumeric(left_type) /\ IsNumeric(right_type) THEN TOk("float")
            ELSE IF left_type = "string" /\ right_type = "string" THEN TOk("string")
            ELSE TErr("TypeError")
      [] operator \in {"Subtract", "Multiply", "Divide"} ->
            IF left_type = "int" /\ right_type = "int" THEN TOk("int")
            ELSE IF IsNumeric(left_type) /\ IsNumeric(right_type) THEN TOk("float")
            ELSE TErr("TypeError")
      [] operator = "Modulo" ->
            IF left_type = "int" /\ right_type = "int" THEN TOk("int")
            ELSE TErr("TypeError")
      [] operator \in {"Equal", "NotEqual"} ->
            IF left_type = right_type THEN TOk("bool") ELSE TErr("TypeError")
      [] operator \in {"Less", "LessEqual", "Greater", "GreaterEqual"} ->
            IF IsNumeric(left_type) /\ IsNumeric(right_type) THEN TOk("bool")
            ELSE TErr("TypeError")
      [] operator \in {"And", "Or"} ->
            IF left_type \in {"bool", "int"} /\ right_type \in {"bool", "int"}
            THEN TOk("bool") ELSE TErr("TypeError")

UnaryOpType(operator, operand_type) ==
    CASE operator = "Not" ->
            IF operand_type \in {"bool", "int"} THEN TOk("bool") ELSE TErr("TypeError")
      [] operator = "Minus" ->
            IF operand_type = "int" THEN TOk("int") ELSE TErr("TypeError")

LiteralType(value) ==
    CASE value.tag = "Int"    -> "int"
      [] value.tag = "Float"  -> "float"
      [] value.tag = "String" -> "string"
      [] value.tag = "Bool"   -> "bool"

\* the arms of check_expression (BuiltinCall): the types each builtin expects
\* of its arguments, "any" where the argument is only checked
BuiltinParameters(name) ==
    CASE name = "abs" -> <<"int">>
      [] name \in {"max", "min", "pow"} -> <<"int", "int">>
      [] name \in {"input", "now", "now_millis"} -> <<>>
      [] name \in {"input_prompt", "string_to_int", "length", "string_length",
                   "upper", "lower", "string_upper", "string_lower", "read_file",
                   "file_exists"} -> <<"string">>
      [] name \in {"int_to_string", "sleep"} -> <<"int">>
      [] name \in {"concat", "write_file"} -> <<"string", "string">>
      [] name \in {"str", "int", "float"} -> <<"any">>

\* the type each arm returns
BuiltinReturnType(name) ==
    CASE name \in {"abs", "max", "min", "pow", "string_to_int", "length",
                   "string_length", "now", "now_millis", "int"} -> "int"
      [] name \in {"write_file", "file_exists", "sleep"} -> "bool"
      [] name = "float" -> "float"
      [] OTHER -> "string"

\* the names check_expression (BuiltinCall) has an arm for, print apart
CheckedBuiltins ==
    {"abs", "max", "min", "pow", "input", "input_prompt", "string_to_int",
     "int_to_string", "length", "string_length", "upper", "lower", "string_upper",
     "string_lower", "concat", "read_file", "write_file", "file_exists", "now",
     "now_millis", "sleep", "str", "int", "float"}

RECURSIVE CheckExpression(_, _, _)
RECURSIVE CheckPrintArguments(_, _, _, _)
RECURSIVE CheckCallArguments(_, _, _, _, _)
RECURSIVE CheckArrayElements(_, _, _, _, _)

\* the loop of the "print" arm: every argument is checked, any type accepted
CheckPrintArguments(arguments, i, variables, functions) ==
    IF i > Len(arguments) THEN TOk("void")
    ELSE LET r == CheckExpression(arguments[i], variables, functions)
         IN IF r.ok THEN CheckPrintArguments(arguments, i + 1, variables, functions)
            ELSE r

\* the loop over arguments.iter().zip(param_types.iter()) of a user function call
CheckCallArguments(arguments, param_types, i, variables, functions) ==
    IF i > Len(arguments) THEN TOk("void")
    ELSE LET r == CheckExpression(arguments[i], variables, functions)
         IN IF ~r.ok THEN r
            ELSE IF r.type # param_types[i] THEN TErr("TypeError")
            ELSE CheckCallArguments(arguments, param_types, i + 1, variables, functions)

\* the loop over elements.iter().enumerate().skip(1) of an array literal
CheckArrayElements(elements, i, first_type, variables, functions) ==
    IF i > Len(elements) THEN TOk(ArrayType(first_type))
    ELSE LET r == CheckExpression(elements[i], variables, functions)
         IN IF ~r.ok THEN r
            ELSE IF r.type # first_type THEN TErr("TypeError")
            ELSE CheckArrayElements(elements, i + 1, first_type, variables, functions)

CheckExpression(expr, variables, functions) ==
    CASE expr.k = "Literal" -> TOk(LiteralType(expr.value))
      [] expr.k = "Variable" ->
            IF MapHas(variables, expr.name) THEN TOk(variables[expr.name])
            ELSE TErr("UndefinedVariable")
      [] expr.k = "FunctionCall" ->
            IF expr.name = "print"
            THEN CheckPrintArguments(expr.arguments, 1, variables, functions)
            ELSE IF MapHas(functions, expr.name)
            THEN LET sig == functions[expr.name]
                 IN IF Len(expr.arguments) # Len(sig.param_types)
                    THEN TErr("ArgumentMismatch")
                    ELSE LET r == CheckCallArguments(expr.arguments, sig.param_types,
                                                     1, variables, functions)
                         IN IF r.ok THEN TOk(sig.return_type) ELSE r
            ELSE TErr("UndefinedFunction")
      [] expr.k = "BinaryOp" ->
            LET l == CheckExpression(expr.left, variables, functions)
            IN IF ~l.ok THEN l
               ELSE LET r == CheckExpression(expr.right, variables, functions)
                    IN IF ~r.ok THEN r
                       ELSE BinaryOpType(expr.operator, l.type, r.type)
      [] expr.k = "UnaryOp" ->
            LET o == CheckExpression(expr.operand, variables, functions)
            IN IF ~o.ok THEN o ELSE UnaryOpType(expr.operator, o.type)
      [] expr.k = "ArrayLiteral" ->
            IF expr.elements = <<>> THEN TOk(ArrayType("int"))
            ELSE LET first == CheckExpression(expr.elements[1], variables, functions)
                 IN IF ~first.ok THEN first
                    ELSE CheckArrayElements(expr.elements, 2, first.type,
                                            variables, functions)
      [] expr.k = "ArrayAccess" ->
            LET a == CheckExpression(expr.array, variables, functions)
            IN IF ~a.ok THEN a
               ELSE LET i == CheckExpression(expr.index, variables, functions)
                    IN IF ~i.ok THEN i
                       ELSE IF i.type # "int" THEN TErr("TypeError")
                       ELSE IF IsArrayType(a.type) THEN TOk(ElementType(a.type))
                       ELSE TErr("TypeError")
      [] expr.k = "BuiltinCall" ->
            IF expr.name = "print"
            THEN CheckPrintArguments(expr.arguments, 1, variables, functions)
            ELSE IF expr.name \notin CheckedBuiltins THEN TErr("TypeError")
            ELSE IF Len(expr.arguments) # Len(BuiltinParameters(expr.name))
            THEN TErr(IF expr.name \in {"input", "input_prompt", "string_to_int",
                                        "int_to_string"}
                      THEN "ArgumentMismatch" ELSE "TypeError")
            ELSE LET r == CheckPrintArguments(expr.arguments, 1, variables, functions)
                     Expected(i) == BuiltinParameters(expr.name)[i]
                 IN IF ~r.ok THEN r
                    ELSE IF \E i \in 1..Len(expr.arguments) :
                               /\ Expected(i) # "any"
                               /\ CheckExpression(expr.arguments[i], variables,
                                                  functions).type # Expected(i)
                    THEN TErr("TypeError")
                    ELSE TOk(BuiltinReturnType(expr.name))

---------------------------------------------------------------------------
(* TypeChecker::check and its passes.  The recursion of check_block and     *)
(* check_statement is unfolded into the work list tcWork: a statement still *)
(* to check, or the code that follows a nested block in check_statement     *)
(* (the "else" switch, the restore of saved_vars) or in check_function.     *)

WStmt(s)            == [w |-> "stmt", s |-> s]
WRestore(saved)     == [w |-> "restore", saved |-> saved]
WElse(saved, block) == [w |-> "else", saved |-> saved, block |-> block]
WForCondition(e)    == [w |-> "forcond", e |-> e]
WEndFunction(orig)  == [w |-> "endfn", saved |-> orig]
WEndMain            == [w |-> "endmain"]

WBlock(block) == [i \in 1..Len(block) |-> WStmt(block[i])]

NoDecl == [seen |-> FALSE, name |-> "", accepted |-> FALSE, welltyped |-> FALSE,
           same |-> FALSE, enclosing |-> FALSE, exited |-> FALSE]

\* names declared in the scopes that enclose the innermost one
EnclosingNames(scopes) ==
    UNION {scopes[i] : i \in 1..(Len(scopes) - 1)}

InnermostNames(scopes) == scopes[Len(scopes)]

DeclareInScope(scopes, name) ==
    [scopes EXCEPT ![Len(scopes)] = @ \cup {name}]

PopScope(scopes) == SubSeq(scopes, 1, Len(scopes) - 1)

\* the process before main() has parsed its arguments, in an output directory
\* that holds no artifact
\* Parser::new on no token, GarbageCollector::new with no thread, and no pool
NoParser ==
    [tokens |-> <<>>, current |-> 0, pc |-> "done", statements |-> <<>>,
     err |-> None, last |-> None]

NoGC == [allocations |-> <<>>]

NoPool == [blocks |-> <<>>, free_list |-> <<>>]

RTIdle ==
    /\ parser = NoParser
    /\ gc = NoGC
    /\ pool = NoPool

NoDriver ==
    [command |-> "", backend |-> "", emit_ir |-> FALSE, emit_llvm |-> FALSE,
     emit_asm |-> FALSE, keep_temps |-> FALSE, pc |-> "main", files |-> {},
     compiled |-> "", child |-> "", exit |-> -1]

TCIdle ==
    /\ tcPhase = "start"
    /\ tcVariables = EmptyMap
    /\ tcFunctions = EmptyMap
    /\ tcReturnType = None
    /\ tcWork = <<>>
    /\ tcFnIdx = 1
    /\ tcErr = None
    /\ tcScopes = <<{}>>
    /\ tcExited = {}
    /\ tcLast = NoDecl

\* check() returns Err(err): nothing of the check runs after it
TCFail(err) ==
    /\ tcErr' = Some(err)
    /\ tcPhase' = "done"
    /\ tcWork' = <<>>

RECURSIVE Signatures(_, _, _)
Signatures(fs, i, acc) ==
    IF i > Len(fs) THEN acc
    ELSE Signatures(fs, i + 1,
            MapPut(acc, fs[i].name,
                   [param_types |-> [j \in 1..Len(fs[i].parameters) |->
                                        fs[i].parameters[j].param_type],
                    return_type |-> fs[i].return_type]))

\* collect_global_variables: [ok, variables, err]
RECURSIVE CollectGlobalVariables(_, _, _, _)
CollectGlobalVariables(statements, i, variables, functions) ==
    IF i > Len(statements) THEN [ok |-> TRUE, variables |-> variables, err |-> ""]
    ELSE IF statements[i].k = "Assignment"
    THEN LET r == CheckExpression(statements[i].value, variables, functions)
         IN IF r.ok
            THEN CollectGlobalVariables(statements, i + 1,
                     MapPut(variables, statements[i].name, r.type), functions)
            ELSE [ok |-> FALSE, variables |-> variables, err |-> r.err]
    ELSE CollectGlobalVariables(statements, i + 1, variables, functions)

\* check(): first pass (signatures) and second pass (global variables)
TCCollect ==
    /\ tcPhase = "start"
    /\ LET sigs == Signatures(program.functions, 1, EmptyMap)
           g    == CollectGlobalVariables(program.main, 1, EmptyMap, sigs)
       IN /\ tcFunctions' = sigs
          /\ tcReturnType' = Some("void")
          /\ tcVariables' = g.variables
          /\ IF g.ok
             THEN /\ tcPhase' = "functions"
                  /\ UNCHANGED <<tcWork, tcErr>>
             ELSE TCFail(g.err)
    /\ UNCHANGED <<tcEnv, tcFnIdx, tcScopes, tcExited, tcLast>>

RECURSIVE PutParameters(_, _, _)
PutParameters(parameters, i, scope) ==
    IF i > Len(parameters) THEN scope
    ELSE PutParameters(parameters, i + 1,
            MapPut(scope, parameters[i].name, parameters[i].param_type))

\* check(): third pass, check_function up to its call of check_block
TCEnterFunction ==
    /\ tcPhase = "functions"
    /\ tcWork = <<>>
    /\ tcFnIdx <= Len(program.functions)
    /\ LET function == program.functions[tcFnIdx]
       IN /\ tcVariables' = PutParameters(function.parameters, 1, tcVariables)
          /\ tcReturnType' = Some(function.return_type)
          /\ tcWork' = WBlock(function.body) \o <<WEndFunction(tcVariables)>>
          /\ tcScopes' = <<DOMAIN tcVariables,
                           {function.parameters[j].name :
                                j \in 1..Len(function.parameters)}>>
    /\ tcExited' = {}
    /\ UNCHANGED <<tcEnv, tcPhase, tcFunctions, tcFnIdx, tcErr, tcLast>>

\* check_function after check_block: self.variables = original_variables
TCLeaveFunction ==
    /\ tcPhase = "functions"
    /\ tcWork # <<>>
    /\ Head(tcWork).w = "endfn"
    /\ tcVariables' = Head(tcWork).saved
    /\ tcWork' = Tail(tcWork)
    /\ tcFnIdx' = tcFnIdx + 1
    /\ UNCHANGED <<tcEnv, tcPhase, tcFunctions, tcReturnType, tcErr,
                   tcScopes, tcExited, tcLast>>

\* check(): "Finally: type check main block completely"
TCEnterMain ==
    /\ tcPhase = "functions"
    /\ tcWork = <<>>
    /\ tcFnIdx > Len(program.functions)
    /\ tcPhase' = "main"
    /\ tcReturnType' = Some("void")
    /\ tcWork' = WBlock(program.main) \o <<WEndMain>>
    /\ tcScopes' = <<{}>>
    /\ tcExited' = {}
    /\ UNCHANGED <<tcEnv, tcVariables, tcFunctions, tcFnIdx, tcErr, tcLast>>

\* check() returns Ok(())
TCFinish ==
    /\ tcPhase = "main"
    /\ tcWork # <<>>
    /\ Head(tcWork).w = "endmain"
    /\ tcPhase' = "done"
    /\ tcWork' = <<>>
    /\ UNCHANGED <<tcEnv, tcVariables, tcFunctions, tcReturnType, tcFnIdx,
                   tcErr, tcScopes, tcExited, tcLast>>

---------------------------------------------------------------------------
(* TypeChecker::check_statement, one action per arm *)

TCAtStatement(kind) ==
    /\ tcPhase \in {"functions", "main"}
    /\ tcWork # <<>>
    /\ Head(tcWork).w = "stmt"
    /\ Head(tcWork).s.k = kind

TCConditionOk(r) == r.ok /\ r.type \in {"bool", "int"}

TCConditionErr(r) == IF r.ok THEN "TypeError" ELSE r.err

\* Statement::Declaration
TCDeclaration ==
    /\ TCAtStatement("Declaration")
    /\ LET stmt == Head(tcWork).s
           r    == CheckExpression(stmt.value, tcVariables, tcFunctions)
           welltyped == r.ok /\ r.type = stmt.var_type
           accepted  == welltyped /\ ~MapHas(tcVariables, stmt.name)
           same      == stmt.name \in InnermostNames(tcScopes)
           enclosing == stmt.name \in EnclosingNames(tcScopes)
       IN /\ tcLast' = [seen |-> TRUE, name |-> stmt.name, accepted |-> accepted,
                        welltyped |-> welltyped, same |-> same,
                        enclosing |-> enclosing,
                        exited |-> stmt.name \in tcExited]
          /\ IF ~r.ok THEN
                /\ TCFail(r.err)
                /\ UNCHANGED <<tcVariables, tcScopes>>
             ELSE IF r.type # stmt.var_type THEN
                /\ TCFail("TypeError")
                /\ UNCHANGED <<tcVariables, tcScopes>>
             ELSE IF MapHas(tcVariables, stmt.name) THEN
                /\ TCFail("TypeError")
                /\ UNCHANGED <<tcVariables, tcScopes>>
             ELSE
                /\ tcVariables' = MapPut(tcVariables, stmt.name, stmt.var_type)
                /\ tcScopes' = DeclareInScope(tcScopes, stmt.name)
                /\ tcWork' = Tail(tcWork)
                /\ UNCHANGED <<tcPhase, tcErr>>
    /\ UNCHANGED <<tcEnv, tcFunctions, tcReturnType, tcFnIdx, tcExited>>

\* Statement::Assignment
TCAssignment ==
    /\ TCAtStatement("Assignment")
    /\ LET stmt == Head(tcWork).s
           r    == CheckExpression(stmt.value, tcVariables, tcFunctions)
       IN IF ~r.ok THEN
             /\ TCFail(r.err)
             /\ UNCHANGED <<tcVariables, tcScopes>>
          ELSE IF MapHas(tcVariables, stmt.name) THEN
             IF tcVariables[stmt.name] # r.type THEN
                /\ TCFail("TypeError")
                /\ UNCHANGED <<tcVariables, tcScopes>>
             ELSE
                /\ tcWork' = Tail(tcWork)
                /\ UNCHANGED <<tcVariables, tcScopes, tcPhase, tcErr>>
          ELSE
             \* implicit declaration with inferred type
             /\ tcVariables' = MapPut(tcVariables, stmt.name, r.type)
             /\ tcScopes' = DeclareInScope(tcScopes, stmt.name)
             /\ tcWork' = Tail(tcWork)
             /\ UNCHANGED <<tcPhase, tcErr>>
    /\ UNCHANGED <<tcEnv, tcFunctions, tcReturnType, tcFnIdx, tcExited, tcLast>>

\* Statement::ArrayAssignment
TCArrayAssignment ==
    /\ TCAtStatement("ArrayAssignment")
    /\ LET stmt == Head(tcWork).s
           i    == CheckExpression(stmt.index, tcVariables, tcFunctions)
           v    == CheckExpression(stmt.value, tcVariables, tcFunctions)
       IN IF ~i.ok THEN TCFail(i.err)
          ELSE IF ~v.ok THEN TCFail(v.err)
          ELSE IF i.type # "int" THEN TCFail("TypeError")
          ELSE IF ~MapHas(tcVariables, stmt.name) THEN TCFail("TypeError")
          ELSE IF ~IsArrayType(tcVariables[stmt.name]) THEN TCFail("TypeError")
          ELSE IF ElementType(tcVariables[stmt.name]) # v.type THEN TCFail("TypeError")
          ELSE /\ tcWork' = Tail(tcWork)
               /\ UNCHANGED <<tcPhase, tcErr>>
    /\ UNCHANGED <<tcEnv, tcVariables, tcFunctions, tcReturnType, tcFnIdx,
                   tcScopes, tcExited, tcLast>>

\* Statement::If, up to check_block(then_block)
TCIf ==
    /\ TCAtStatement("If")
    /\ LET stmt == Head(tcWork).s
           r    == CheckExpression(stmt.condition, tcVariables, tcFunctions)
           saved_vars == tcVariables
       IN IF ~TCConditionOk(r) THEN
             /\ TCFail(TCConditionErr(r))
             /\ UNCHANGED tcScopes
          ELSE
             /\ tcWork' = WBlock(stmt.then_block)
                          \o (IF stmt.else_block # None
                              THEN <<WElse(saved_vars, stmt.else_block[1])>>
                              ELSE <<WRestore(saved_vars)>>)
                          \o Tail(tcWork)
             /\ tcScopes' = Append(tcScopes, {})
             /\ UNCHANGED <<tcPhase, tcErr>>
    /\ UNCHANGED <<tcEnv, tcVariables, tcFunctions, tcReturnType, tcFnIdx,
                   tcExited, tcLast>>

\* Statement::If: self.variables = saved_vars.clone(); check_block(else_block)
TCElse ==
    /\ tcPhase \in {"functions", "main"}
    /\ tcWork # <<>>
    /\ Head(tcWork).w = "else"
    /\ tcVariables' = Head(tcWork).saved
    /\ tcWork' = WBlock(Head(tcWork).block)
                 \o <<WRestore(Head(tcWork).saved)>> \o Tail(tcWork)
    /\ tcExited' = tcExited \cup InnermostNames(tcScopes)
    /\ tcScopes' = Append(PopScope(tcScopes), {})
    /\ UNCHANGED <<tcEnv, tcPhase, tcFunctions, tcReturnType, tcFnIdx, tcErr, tcLast>>

\* a block that leaves its declarations in self.variables
KeepBlockVariables(saved) == tcVariables

\* self.variables = saved_vars: the map a nested block is left with
RestoreScope(saved) == saved

\* Statement::If / While / For: self.variables = saved_vars
TCRestore ==
    /\ tcPhase \in {"functions", "main"}
    /\ tcWork # <<>>
    /\ Head(tcWork).w = "restore"
    /\ tcVariables' = RestoreScope(Head(tcWork).saved)
    /\ tcWork' = Tail(tcWork)
    /\ tcExited' = tcExited \cup InnermostNames(tcScopes)
    /\ tcScopes' = PopScope(tcScopes)
    /\ UNCHANGED <<tcEnv, tcPhase, tcFunctions, tcReturnType, tcFnIdx, tcErr, tcLast>>

\* Statement::While
TCWhile ==
    /\ TCAtStatement("While")
    /\ LET stmt == Head(tcWork).s
           r    == CheckExpression(stmt.condition, tcVariables, tcFunctions)
           saved_vars == tcVariables
       IN IF ~TCConditionOk(r) THEN
             /\ TCFail(TCConditionErr(r))
             /\ UNCHANGED tcScopes
          ELSE
             /\ tcWork' = WBlock(stmt.body) \o <<WRestore(saved_vars)>> \o Tail(tcWork)
             /\ tcScopes' = Append(tcScopes, {})
             /\ UNCHANGED <<tcPhase, tcErr>>
    /\ UNCHANGED <<tcEnv, tcVariables, tcFunctions, tcReturnType, tcFnIdx,
                   tcExited, tcLast>>

\* Statement::For: saved_vars, then init, condition, increment, body in this order
TCFor ==
    /\ TCAtStatement("For")
    /\ LET stmt == Head(tcWork).s
           saved_vars == tcVariables
       IN tcWork' = <<WStmt(stmt.init), WForCondition(stmt.condition),
                      WStmt(stmt.increment)>>
                    \o WBlock(stmt.body) \o <<WRestore(saved_vars)>> \o Tail(tcWork)
    /\ tcScopes' = Append(tcScopes, {})
    /\ UNCHANGED <<tcEnv, tcPhase, tcVariables, tcFunctions, tcReturnType, tcFnIdx,
                   tcErr, tcExited, tcLast>>

\* Statement::For: the check of the condition
TCForCondition ==
    /\ tcPhase \in {"functions", "main"}
    /\ tcWork # <<>>
    /\ Head(tcWork).w = "forcond"
    /\ LET r == CheckExpression(Head(tcWork).e, tcVariables, tcFunctions)
       IN IF ~TCConditionOk(r) THEN TCFail(TCConditionErr(r))
          ELSE /\ tcWork' = Tail(tcWork)
               /\ UNCHANGED <<tcPhase, tcErr>>
    /\ UNCHANGED <<tcEnv, tcVariables, tcFunctions, tcReturnType, tcFnIdx,
                   tcScopes, tcExited, tcLast>>

\* Statement::Return
TCReturn ==
    /\ TCAtStatement("Return")
    /\ LET stmt == Head(tcWork).s
           r    == IF stmt.value # None
                   THEN CheckExpression(stmt.value[1], tcVariables, tcFunctions)
                   ELSE TOk("void")
       IN IF ~r.ok THEN TCFail(r.err)
          ELSE IF tcReturnType # None /\ r.type # tcReturnType[1] THEN TCFail("TypeError")
          ELSE /\ tcWork' = Tail(tcWork)
               /\ UNCHANGED <<tcPhase, tcErr>>
    /\ UNCHANGED <<tcEnv, tcVariables, tcFunctions, tcReturnType, tcFnIdx,
                   tcScopes, tcExited, tcLast>>

\* Statement::Expression
TCExpression ==
    /\ TCAtStatement("Expression")
    /\ LET r == CheckExpression(Head(tcWork).s.expr, tcVariables, tcFunctions)
       IN IF ~r.ok THEN TCFail(r.err)
          ELSE /\ tcWork' = Tail(tcWork)
               /\ UNCHANGED <<tcPhase, tcErr>>
    /\ UNCHANGED <<tcEnv, tcVariables, tcFunctions, tcReturnType, tcFnIdx,
                   tcScopes, tcExited, tcLast>>

TCNext ==
    \/ TCCollect
    \/ TCEnterFunction
    \/ TCLeaveFunction
    \/ TCEnterMain
    \/ TCFinish
    \/ TCDeclaration
    \/ TCArrayAssignment
    \/ TCAssignment
    \/ TCIf
    \/ TCElse
    \/ TCRestore
    \/ TCWhile
    \/ TCFor
    \/ TCForCondition
    \/ TCReturn
    \/ TCExpression

---------------------------------------------------------------------------
(* LLVMCodeGenerator (backend/llvm.rs): the module it builds                *)
(*   module        function name -> sequence of basic blocks [label, instrs] *)
(*   insert_block  the builder's position: a block of current_function;      *)
(*                 the builder appends at the end of that block              *)
(*   an instruction is a record with its kind op and the number id of the    *)
(*   value it defines; an operand is a record with its kind o                *)

Reg(id)     == [o |-> "reg", id |-> id]
ConstInt(n) == [o |-> "int", n |-> n]
StrPtr(s)   == [o |-> "str", s |-> s]
Param(i)    == [o |-> "param", i |-> i]
Undef       == [o |-> "undef"]

\* the base name and an underscore, without the counter
NameOfBase(base_name, counter) == base_name \o "_"

\* format!("{}_{}", base_name, self.variable_counter)
UniqueName(base_name, counter) == base_name \o "_" \o ToString(counter)

Terminators == {"ret", "br", "condbr"}

\* BasicBlock::get_terminator: the last instruction, when it is a terminator
GetTerminator(block) ==
    IF block.instrs # <<>> /\ block.instrs[Len(block.instrs)].op \in Terminators
    THEN Some(block.instrs[Len(block.instrs)])
    ELSE None

LLVMNew ==
    [functions |-> {}, global_variables |-> EmptyMap, local_variables |-> EmptyMap,
     current_function |-> None, variable_counter |-> 0,
     module |-> EmptyMap, insert_block |-> 0, next_value |-> 0, err |-> None,
     \* history: statements lowered after a Return of their own block
     lowered_after_return |-> 0,
     \* history: the storage each Assignment / Variable of a body resolved to
     resolved |-> {},
     \* history: the strings get_unique_var_name returned, in the order of
     \* its calls
     unique_names |-> <<>>,
     \* history: for each branch of an If, the block where its lowering ended,
     \* the merge block, and whether its last statement is a Return
     branches |-> {}]

\* get_unique_var_name: the counter is incremented and the name formatted;
\* the String returned is the last of unique_names
GetUniqueVarName(g, base_name) ==
    [g EXCEPT !.variable_counter = @ + 1,
              !.unique_names = Append(@, UniqueName(base_name, g.variable_counter + 1))]

Last(names) == names[Len(names)]

LLFail(g, e) == [g EXCEPT !.err = Some(e)]

\* Once g.err is set (a "?" returned Err) nothing more is built: every
\* operation of the builder leaves such a g as it is.

\* Builder::build_*: append at the builder's position
LLBuild(g, instr) ==
    IF g.err # None THEN g
    ELSE [g EXCEPT !.next_value = @ + 1,
                   !.module[g.current_function[1]][g.insert_block].instrs =
                        Append(@, instr @@ [id |-> g.next_value + 1])]

\* [g, v]: the value the instruction built last defines
LLValue(g) == [g |-> g, v |-> Reg(g.next_value)]

\* format!("yaf_func_{}", function.name): the module's name of a user function
YafFunc(name) == <<"yaf_func", name>>

\* the module's name of a runtime function, and of the entry point
Runtime(name) == <<name>>

LLCall(g, fn, args) ==
    LLBuild(g, [op |-> "call", fn |-> Runtime(fn), args |-> args])

\* the call of a runtime function of one argument on the value of r
LLCallOn(r, fn) == LLValue(LLCall(r.g, fn, <<r.v>>))

NumBlocks(g) == Len(g.module[g.current_function[1]])

\* Context::append_basic_block, for each label in turn
AppendBasicBlocks(g, labels) ==
    IF g.err # None THEN g
    ELSE [g EXCEPT !.module[g.current_function[1]] =
                       @ \o [i \in 1..Len(labels) |-> [label |-> labels[i], instrs |-> <<>>]]]

PositionAtEnd(g, bb) ==
    IF g.err # None THEN g ELSE [g EXCEPT !.insert_block = bb]

\* get_variable: first local, then global
GetVariable(g, name) ==
    IF MapHas(g.local_variables, name) THEN Some(g.local_variables[name])
    ELSE IF MapHas(g.global_variables, name) THEN Some(g.global_variables[name])
    ELSE None

\* Module::add_global with a unique name, registered in global_variables
LLAddGlobal(g, name) ==
    LET g1 == GetUniqueVarName(g, name)
    IN [g1 EXCEPT !.global_variables =
                      MapPut(@, name, [space |-> "global",
                                       name |-> Last(g1.unique_names)])]

\* the storage a Declaration or a new Assignment creates: an alloca placed
\* before the first instruction of the entry block of current_function, or a
\* global when there is no current_function
LLCreateVariable(g, name) ==
    IF g.err # None THEN g
    ELSE IF g.current_function # None
    THEN LET g1  == GetUniqueVarName(g, name)
             ptr == [space |-> "local", name |-> Last(g1.unique_names)]
         IN [g1 EXCEPT !.next_value = @ + 1,
                       !.module[g.current_function[1]][1].instrs =
                           <<[op |-> "alloca", ptr |-> ptr, id |-> g.next_value + 1]>> \o @,
                       !.local_variables = MapPut(@, name, ptr)]
    ELSE LLAddGlobal(g, name)

\* history: where a name used in the body under lowering was found
LLResolve(g, name, use) ==
    IF g.err # None THEN g
    ELSE [g EXCEPT !.resolved = @ \cup
            {[fn |-> g.current_function[1], name |-> name, use |-> use,
              found |-> GetVariable(g, name),
              local |-> IF MapHas(g.local_variables, name)
                        THEN Some(g.local_variables[name]) ELSE None,
              global |-> IF MapHas(g.global_variables, name)
                         THEN Some(g.global_variables[name]) ELSE None,
              storage |-> IF MapHas(g.local_variables, name) THEN "local"
                          ELSE IF MapHas(g.global_variables, name) THEN "global"
                          ELSE IF use = "assign" THEN "new local"
                          ELSE "undefined"]}]

\* build_store(alloca, val) into the storage of name
LLStore(g, name, val) ==
    IF g.err # None THEN g
    ELSE LLBuild(g, [op |-> "store", ptr |-> GetVariable(g, name)[1], args |-> <<val>>])

---------------------------------------------------------------------------
(* LLVMCodeGenerator::generate_expression: [g, v], v the operand that holds  *)
(* the expression's Value                                                   *)

BinaryOperatorFunction(operator) ==
    CASE operator = "Add"          -> "yaf_add"
      [] operator = "Subtract"     -> "yaf_sub"
      [] operator = "Multiply"     -> "yaf_mul"
      [] operator = "Divide"       -> "yaf_div"
      [] operator = "Modulo"       -> "yaf_mod"
      [] operator = "Equal"        -> "yaf_eq"
      [] operator = "NotEqual"     -> "yaf_ne"
      [] operator = "Less"         -> "yaf_lt"
      [] operator = "LessEqual"    -> "yaf_le"
      [] operator = "Greater"      -> "yaf_gt"
      [] operator = "GreaterEqual" -> "yaf_ge"

\* call_yaf_make_bool_from_i1: zext to i32, then the call of yaf_make_bool
CallYafMakeBoolFromI1(g, bool_val) ==
    LLCallOn(LLValue(LLBuild(g, [op |-> "zext", args |-> <<bool_val>>])),
             "yaf_make_bool")

\* BinaryOp, once both operands are built: l and r are their [g, v]
LLBinaryOp(l, r, operator) ==
    IF operator \in {"And", "Or"}
    THEN LET n  == r.g.next_value
             g1 == LLBuild(LLCall(LLCall(r.g, "yaf_to_bool", <<l.v>>),
                                  "yaf_to_bool", <<r.v>>),
                           [op |-> IF operator = "And" THEN "and" ELSE "or",
                            args |-> <<Reg(n + 1), Reg(n + 2)>>])
         IN CallYafMakeBoolFromI1(g1, Reg(n + 3))
    ELSE LLValue(LLCall(r.g, BinaryOperatorFunction(operator), <<l.v, r.v>>))

\* UnaryOp, once the operand is built
LLUnaryOp(o, operator) ==
    LET n == o.g.next_value
    IN IF operator = "Not"
       THEN CallYafMakeBoolFromI1(
                LLBuild(LLCall(o.g, "yaf_to_bool", <<o.v>>),
                        [op |-> "not", args |-> <<Reg(n + 1)>>]),
                Reg(n + 2))
       ELSE LLValue(LLCall(
                LLBuild(LLBuild(o.g, [op |-> "extract_data", args |-> <<o.v>>]),
                        [op |-> "sub", args |-> <<ConstInt(0), Reg(n + 1)>>]),
                "yaf_make_int", <<Reg(n + 2)>>))

\* the functions declare_yaf_runtime_functions adds to the module
LibraryDeclarations ==
    {"yaf_make_int", "yaf_make_float", "yaf_make_bool", "yaf_make_string",
     "yaf_print_value", "yaf_print_value_no_newline", "yaf_free_value",
     "yaf_string_concat", "yaf_io_input", "yaf_io_input_prompt",
     "yaf_string_to_int", "yaf_int_to_string", "yaf_time_now",
     "yaf_time_now_millis", "yaf_time_sleep", "yaf_value_to_string",
     "yaf_value_to_int", "yaf_value_to_float"}

\* generate_builtin_call: the library function of each arm
LLLibraryFunction(name) ==
    CASE name = "abs" -> "yaf_math_abs"
      [] name = "max" -> "yaf_math_max"
      [] name = "min" -> "yaf_math_min"
      [] name = "pow" -> "yaf_math_pow"
      [] name = "length" -> "yaf_string_length"
      [] name = "upper" -> "yaf_string_upper"
      [] name = "lower" -> "yaf_string_lower"
      [] name = "concat" -> "yaf_string_concat"
      [] name = "read_file" -> "yaf_io_read_file"
      [] name = "write_file" -> "yaf_io_write_file"
      [] name = "file_exists" -> "yaf_io_file_exists"
      [] name = "input" -> "yaf_io_input"
      [] name = "input_prompt" -> "yaf_io_input_prompt"
      [] name = "now" -> "yaf_time_now"
      [] name = "now_millis" -> "yaf_time_now_millis"
      [] name = "sleep" -> "yaf_time_sleep"
      [] name = "str" -> "yaf_value_to_string"
      [] name = "string_to_int" -> "yaf_string_to_int"
      [] name = "int_to_string" -> "yaf_int_to_string"
      [] name = "int" -> "yaf_value_to_int"
      [] name = "float" -> "yaf_value_to_float"
      [] OTHER -> ""

\* generate_builtin_call: the number of arguments each arm expects
LLBuiltinArity(name) ==
    CASE name \in {"max", "min", "pow", "concat", "write_file"} -> 2
      [] name \in {"input", "now", "now_millis"} -> 0
      [] OTHER -> 1

RECURSIVE LLGenerateExpression(_, _)
RECURSIVE LLGeneratePrint(_, _, _)
RECURSIVE LLGenerateArguments(_, _, _, _)
RECURSIVE LLGenerateElements(_, _, _, _)

\* print: "for arg in arguments.iter()" with one call per argument
LLGeneratePrint(g, arguments, i) ==
    IF i > Len(arguments) THEN g
    ELSE LLGeneratePrint(
            LLCallOn(LLGenerateExpression(g, arguments[i]),
                     "yaf_print_value_no_newline").g,
            arguments, i + 1)

\* user call: "for arg in arguments", args.push: [g, args]
LLGenerateArguments(g, arguments, i, args) ==
    LET Push(a) == LLGenerateArguments(a.g, arguments, i + 1, Append(args, a.v))
    IN IF i > Len(arguments) THEN [g |-> g, args |-> args]
       ELSE Push(LLGenerateExpression(g, arguments[i]))

\* ArrayLiteral: "for (i, element) in elements.iter().enumerate()", the
\* element, the index through yaf_make_int, then yaf_array_set
LLGenerateElements(g, elements, i, array_val) ==
    LET Set(e) == LLCall(LLCall(e.g, "yaf_make_int", <<ConstInt(i - 1)>>),
                         "yaf_array_set",
                         <<array_val, Reg(e.g.next_value + 1), e.v>>)
    IN IF i > Len(elements) \/ g.err # None THEN g
       ELSE LLGenerateElements(Set(LLGenerateExpression(g, elements[i])),
                               elements, i + 1, array_val)

LLGenerateExpression(g, expr) ==
    IF g.err # None THEN [g |-> g, v |-> Undef]
    ELSE
    CASE expr.k = "Literal" ->
            (CASE expr.value.tag = "Int" ->
                    LLValue(LLCall(g, "yaf_make_int", <<ConstInt(expr.value.i)>>))
               [] expr.value.tag = "Bool" ->
                    CallYafMakeBoolFromI1(g, ConstInt(expr.value.i))
               [] expr.value.tag = "String" ->
                    LLValue(LLCall(g, "yaf_make_string", <<StrPtr(expr.value.s)>>)))
      [] expr.k = "Variable" ->
            IF GetVariable(g, expr.name) # None
            THEN LLValue(LLBuild(LLResolve(g, expr.name, "read"),
                                 [op |-> "load", ptr |-> GetVariable(g, expr.name)[1]]))
            ELSE [g |-> LLFail(LLResolve(g, expr.name, "read"), "Undefined variable"),
                  v |-> Undef]
      [] expr.k = "FunctionCall" ->
            IF expr.name = "print"
            THEN [g |-> LLCall(LLGeneratePrint(g, expr.arguments, 1),
                               "printf", <<StrPtr("\n")>>),
                  v |-> Undef]
            ELSE IF expr.name \in g.functions
            THEN LET Call(a) == LLValue(LLBuild(a.g, [op |-> "call",
                                                      fn |-> YafFunc(expr.name),
                                                      args |-> a.args]))
                 IN Call(LLGenerateArguments(g, expr.arguments, 1, <<>>))
            ELSE [g |-> LLFail(g, "Undefined function"), v |-> Undef]
      [] expr.k = "BinaryOp" ->
            LET Right(l) == LLBinaryOp(l, LLGenerateExpression(l.g, expr.right),
                                       expr.operator)
            IN Right(LLGenerateExpression(g, expr.left))
      [] expr.k = "UnaryOp" ->
            LLUnaryOp(LLGenerateExpression(g, expr.operand), expr.operator)
      [] expr.k = "ArrayLiteral" ->
            LET Elements(a) == [g |-> LLGenerateElements(a.g, expr.elements, 1, a.v),
                                v |-> a.v]
            IN Elements(LLValue(LLCall(g, "yaf_make_array",
                                       <<ConstInt(Len(expr.elements))>>)))
      [] expr.k = "ArrayAccess" ->
            LET Get(a, i) == LLValue(LLCall(i.g, "yaf_array_get", <<a.v, i.v>>))
                Index(a)  == Get(a, LLGenerateExpression(a.g, expr.index))
            IN Index(LLGenerateExpression(g, expr.array))
      [] expr.k = "BuiltinCall" ->
            \* call_library_function: Module::get_function, then build_call
            LET Library(a) ==
                    IF LLLibraryFunction(expr.name) \in LibraryDeclarations
                    THEN LLValue(LLCall(a.g, LLLibraryFunction(expr.name), a.args))
                    ELSE [g |-> LLFail(a.g, "Function not found"), v |-> Undef]
            IN IF LLLibraryFunction(expr.name) = ""
               THEN [g |-> LLFail(g, "Unknown builtin function"), v |-> Undef]
               ELSE IF Len(expr.arguments) # LLBuiltinArity(expr.name)
               THEN [g |-> LLFail(g, "expects arguments"), v |-> Undef]
               ELSE Library(LLGenerateArguments(g, expr.arguments, 1, <<>>))

---------------------------------------------------------------------------
(* LLVMCodeGenerator::generate_statement and generate_block *)

RECURSIVE LLGenerateStatement(_, _)
RECURSIVE LLGenerateBlock(_, _, _)

\* the insert block has no terminator
LLOpen(g) ==
    GetTerminator(g.module[g.current_function[1]][g.insert_block]) = None

\* history: the lowering of a branch of an If ended in the insert block
LLNoteBranch(g, statements, merge_bb) ==
    IF g.err # None THEN g
    ELSE [g EXCEPT !.branches = @ \cup
            {[fn |-> g.current_function[1], bb |-> g.insert_block, merge |-> merge_bb,
              returns |-> /\ statements # <<>>
                          /\ statements[Len(statements)].k = "Return"]}]

\* build_unconditional_branch whatever the insert block ends with
LLBranchAlways(g, bb) ==
    IF g.err = None THEN LLBuild(g, [op |-> "br", target |-> bb]) ELSE g

\* "Only add branch if block doesn't end with return"
LLBranchIfOpen(g, bb) ==
    IF g.err = None /\ LLOpen(g) THEN LLBuild(g, [op |-> "br", target |-> bb]) ELSE g

\* the conditional branch with its two targets exchanged
LLCondBrExchanged(g, c, then_bb, else_bb) ==
    LLBuild(g, [op |-> "condbr", args |-> <<c.v>>,
                target |-> else_bb, else_target |-> then_bb])

\* yaf_to_bool on the condition's Value c, and the conditional branch
LLCondBr(g, c, then_bb, else_bb) ==
    LLBuild(g, [op |-> "condbr", args |-> <<c.v>>,
                target |-> then_bb, else_target |-> else_bb])

LLGenerateBlock(g, block, i) ==
    IF i > Len(block) \/ g.err # None THEN g
    ELSE LLGenerateBlock(
            LLGenerateStatement(
                IF \E j \in 1..(i - 1) : block[j].k = "Return"
                THEN [g EXCEPT !.lowered_after_return = @ + 1]
                ELSE g,
                block[i]),
            block, i + 1)

LLGenerateStatement(g, stmt) ==
    CASE stmt.k = "Declaration" ->
            LET Store(val) == LLStore(LLCreateVariable(val.g, stmt.name),
                                      stmt.name, val.v)
            IN Store(LLGenerateExpression(g, stmt.value))
      [] stmt.k = "Assignment" ->
            LET Create(g1) == IF g1.err = None /\ GetVariable(g1, stmt.name) = None
                              THEN LLCreateVariable(g1, stmt.name)
                              ELSE g1
                Store(val) == LLStore(Create(LLResolve(val.g, stmt.name, "assign")),
                                      stmt.name, val.v)
            IN Store(LLGenerateExpression(g, stmt.value))
      [] stmt.k = "ArrayAssignment" ->
            LET Set(a, i, val) == LLCall(val.g, "yaf_array_set", <<a.v, i.v, val.v>>)
                Value(a, i)    == Set(a, i, LLGenerateExpression(i.g, stmt.value))
                Index(a)       == Value(a, LLGenerateExpression(a.g, stmt.index))
            IN IF GetVariable(g, stmt.name) # None
               THEN Index(LLValue(LLBuild(g, [op |-> "load",
                                              ptr |-> GetVariable(g, stmt.name)[1]])))
               ELSE LLFail(g, "Variable no encontrada")
      [] stmt.k = "Return" ->
            LET Ret(val) == LLBuild(val.g, [op |-> "ret", args |-> <<val.v>>,
                                            implicit |-> FALSE])
            IN IF stmt.value # None
               THEN Ret(LLGenerateExpression(g, stmt.value[1]))
               ELSE Ret([g |-> g, v |-> Undef])
      [] stmt.k = "If" ->
            \* c: the condition after yaf_to_bool; the blocks then, else and
            \* ifcont are appended after it
            LET Else(g1, n) ==
                    IF stmt.else_block # None
                    THEN LLGenerateBlock(PositionAtEnd(g1, n + 2), stmt.else_block[1], 1)
                    ELSE PositionAtEnd(g1, n + 2)
                ElseStatements ==
                    IF stmt.else_block # None THEN stmt.else_block[1] ELSE <<>>
                Then(c, n) ==
                    PositionAtEnd(
                      LLBranchIfOpen(
                        LLNoteBranch(
                          Else(LLBranchIfOpen(
                                 LLNoteBranch(
                                   LLGenerateBlock(
                                     PositionAtEnd(
                                       LLCondBr(AppendBasicBlocks(c.g,
                                                    <<"then", "else", "ifcont">>),
                                                c, n + 1, n + 2),
                                       n + 1),
                                     stmt.then_block, 1),
                                   stmt.then_block, n + 3),
                                 n + 3),
                               n),
                          ElseStatements, n + 3),
                        n + 3),
                      n + 3)
            IN Then(LLCallOn(LLGenerateExpression(g, stmt.condition), "yaf_to_bool"),
                    NumBlocks(g))
      [] stmt.k = "While" ->
            \* loop, loop_body and afterloop are appended first
            LET n == NumBlocks(g)
                Body(c) == LLGenerateBlock(
                               PositionAtEnd(LLCondBr(c.g, c, n + 2, n + 3), n + 2),
                               stmt.body, 1)
            IN PositionAtEnd(
                 LLBranchIfOpen(
                   Body(LLCallOn(
                          LLGenerateExpression(
                            PositionAtEnd(
                              LLBuild(AppendBasicBlocks(g, <<"loop", "loop_body", "afterloop">>),
                                      [op |-> "br", target |-> n + 1]),
                              n + 1),
                            stmt.condition),
                          "yaf_to_bool")),
                   n + 1),
                 n + 3)
      [] stmt.k = "For" ->
            \* after init: for_loop, for_body, for_increment and after_for
            LET Body(c, n) == LLGenerateBlock(
                                  PositionAtEnd(LLCondBr(c.g, c, n + 2, n + 4), n + 2),
                                  stmt.body, 1)
                Loop(g0, n) ==
                    PositionAtEnd(
                      LLBuild(
                        LLGenerateStatement(
                          PositionAtEnd(
                            LLBranchIfOpen(
                              Body(LLCallOn(
                                     LLGenerateExpression(
                                       PositionAtEnd(
                                         LLBuild(AppendBasicBlocks(g0,
                                                    <<"for_loop", "for_body",
                                                      "for_increment", "after_for">>),
                                                 [op |-> "br", target |-> n + 1]),
                                         n + 1),
                                       stmt.condition),
                                     "yaf_to_bool"),
                                   n),
                              n + 3),
                            n + 3),
                          stmt.increment),
                        [op |-> "br", target |-> n + 1]),
                      n + 4)
                Init(g0) == Loop(g0, NumBlocks(g0))
            IN Init(LLGenerateStatement(g, stmt.init))
      [] stmt.k = "Expression" ->
            LLGenerateExpression(g, stmt.expr).g

---------------------------------------------------------------------------
(* LLVMCodeGenerator::generate, one action per pass.  tcAccepted: the driver *)
(* (main.rs) hands a program to a backend only after TypeChecker::check      *)
(* returned Ok.                                                             *)

tcAccepted == tcPhase = "done" /\ tcErr = None

llRun == <<llStack, llGlobals, llHeap, llArrays, llOut, llSteps, llEvents>>

NoEvents ==
    [ret |-> [seen |-> FALSE, implicit |-> FALSE, tag |-> ""],
     division_by_zero |-> "none",
     calls |-> 0,
     hooks |-> <<>>,
     status |-> -1,
     add |-> [seen |-> FALSE, left |-> "", right |-> "", failed |-> FALSE,
              tag |-> "", s |-> ""]]

LLIdle ==
    /\ llPhase = "new"
    /\ llvm = LLVMNew
    /\ llStack = <<>>
    /\ llGlobals = EmptyMap
    /\ llHeap = 0
    /\ llArrays = EmptyMap
    /\ llOut = ""
    /\ llSteps = 0
    /\ llEvents = NoEvents

RECURSIVE CreateGlobalVariables(_, _, _)
CreateGlobalVariables(g, statements, i) ==
    IF i > Len(statements) THEN g
    ELSE IF statements[i].k = "Assignment"
            /\ ~MapHas(g.global_variables, statements[i].name)
    THEN CreateGlobalVariables(LLAddGlobal(g, statements[i].name), statements, i + 1)
    ELSE CreateGlobalVariables(g, statements, i + 1)

\* only the first function is declared before the bodies are lowered
DeclareFirstFunction(g, fs) ==
    [g EXCEPT !.functions = {fs[i].name : i \in 1..Len(fs) \cap {1}},
              !.module = [f \in {YafFunc(fs[i].name) : i \in 1..Len(fs)} |-> <<>>]]

\* declare_function for every function: the module gets the function, without
\* a body, and self.functions its name
DeclareFunctions(g, fs) ==
    [g EXCEPT !.functions = {fs[i].name : i \in 1..Len(fs)},
              !.module = [f \in {YafFunc(fs[i].name) : i \in 1..Len(fs)} |-> <<>>]]

RECURSIVE LLParameters(_, _, _)
\* generate_function: an alloca and a store for each parameter
LLParameters(g, parameters, i) ==
    IF i > Len(parameters) THEN g
    ELSE LET g0  == GetUniqueVarName(g, parameters[i].name)
             ptr == [space |-> "local", name |-> Last(g0.unique_names)]
             g1  == LLBuild(g0, [op |-> "alloca", ptr |-> ptr])
             g2  == LLBuild(g1, [op |-> "store", ptr |-> ptr, args |-> <<Param(i)>>])
         IN LLParameters([g2 EXCEPT !.local_variables =
                                       MapPut(@, parameters[i].name, ptr)],
                         parameters, i + 1)

\* generate(): runtime functions, declare_function, create_global_variables
LLDeclare ==
    /\ tcAccepted
    /\ llPhase = "new"
    /\ llvm' = CreateGlobalVariables(DeclareFunctions(llvm, program.functions),
                                     program.main, 1)
    /\ llPhase' = "main"
    /\ UNCHANGED <<program, rtVars, unit, driver, tcVars, cVars, llRun>>

\* generate_main
LLGenerateMain ==
    /\ llPhase = "main"
    /\ LET g0 == [llvm EXCEPT !.module = MapPut(@, Runtime("main"),
                                           <<[label |-> "entry", instrs |-> <<>>]>>),
                              !.insert_block = 1,
                              !.current_function = Some(Runtime("main")),
                              !.local_variables = EmptyMap]
           g1 == LLGenerateBlock(g0, program.main, 1)
           g2 == LLCall(g1, "yaf_gc_collect", <<>>)
           g3 == LLCall(g2, "yaf_gc_final_cleanup", <<>>)
           g4 == LLBuild(g3, [op |-> "ret", args |-> <<ConstInt(0)>>, implicit |-> FALSE])
       IN IF g1.err # None
          THEN /\ llvm' = g1
               /\ llPhase' = "failed"
          ELSE /\ llvm' = [g4 EXCEPT !.current_function = None]
               /\ llPhase' = "functions"
    /\ UNCHANGED <<program, rtVars, unit, driver, tcVars, cVars, llRun>>

\* generate_function for the next function of program.functions
LLGenerateFunction ==
    /\ llPhase = "functions"
    /\ \E i \in 1..Len(program.functions) :
          LET function == program.functions[i]
              f  == YafFunc(function.name)
              g0 == [llvm EXCEPT !.module[f] = <<[label |-> "entry", instrs |-> <<>>]>>,
                                 !.insert_block = 1,
                                 !.current_function = Some(f),
                                 !.local_variables = EmptyMap]
              g1 == LLParameters(g0, function.parameters, 1)
              g2 == LLGenerateBlock(g1, function.body, 1)
              g3 == IF LLOpen(g2)
                    THEN LLBuild(g2, [op |-> "ret", args |-> <<Undef>>, implicit |-> TRUE])
                    ELSE g2
          IN /\ llvm.module[f] = <<>>
             /\ \A j \in 1..(i - 1) : llvm.module[YafFunc(program.functions[j].name)] # <<>>
             /\ IF g2.err # None
                THEN /\ llvm' = g2
                     /\ llPhase' = "failed"
                ELSE /\ llvm' = [g3 EXCEPT !.current_function = None]
                     /\ UNCHANGED llPhase
    /\ UNCHANGED <<program, rtVars, unit, driver, tcVars, cVars, llRun>>

WellFormedBlock(block) ==
    /\ block.instrs # <<>>
    /\ \A i \in 1..Len(block.instrs) :
          block.instrs[i].op \in Terminators <=> i = Len(block.instrs)

\* main returns i32 and a user function the Value struct: a ret of the other
\* type does not verify
WellTypedReturns(f, block) ==
    \A i \in 1..Len(block.instrs) :
        block.instrs[i].op = "ret" =>
            ((f = Runtime("main")) <=> (block.instrs[i].args[1].o = "int"))

\* generate() returned Ok; the driver calls verify(): Module::verify rejects a
\* block without a terminator or with a terminator that is not its last
\* instruction, and a ret of the wrong type
LLVerify ==
    /\ llPhase = "functions"
    /\ \A f \in DOMAIN llvm.module : llvm.module[f] # <<>>
    /\ llPhase' = IF \A f \in DOMAIN llvm.module :
                        \A b \in 1..Len(llvm.module[f]) :
                            /\ WellFormedBlock(llvm.module[f][b])
                            /\ WellTypedReturns(f, llvm.module[f][b])
                  THEN "verified" ELSE "failed"
    /\ UNCHANGED <<program, rtVars, unit, driver, tcVars, cVars, llvm, llRun>>

---------------------------------------------------------------------------
(* Execution of the module: the runtime Value is [tag, data, s], the tag,    *)
(* the i64 payload (for a String: the address of its characters) and, for   *)
(* a String, the characters at that address.                                *)

\* instructions one execution may run
MaxSteps == 60

\* the Values and the integers an undefined value is observed as
UndefValues ==
    {[tag |-> tg, data |-> d, s |-> ""] : tg \in {"Int", "Bool", "Void"}, d \in {0, 1}}

UndefInts == {0, 1}

\* the runtime library (runtime/yaf_runtime.c), external to the generator
YafMakeInt(n) == [tag |-> "Int", data |-> n, s |-> ""]

YafMakeBool(n) == [tag |-> "Bool", data |-> IF n # 0 THEN 1 ELSE 0, s |-> ""]

YafMakeString(address, chars) == [tag |-> "String", data |-> address, s |-> chars]

YafStringConcat(address, a, b) == YafMakeString(address, a.s \o b.s)

YafPrintValueNoNewline(v) ==
    CASE v.tag = "Int"    -> ToString(v.data)
      [] v.tag = "Bool"   -> IF v.data # 0 THEN "true" ELSE "false"
      [] v.tag = "String" -> v.s
      [] v.tag = "Void"   -> "void"

\* division and remainder of sdiv / srem and of C: the quotient truncates
\* toward zero
TruncDiv(a, b) ==
    IF (a >= 0) = (b >= 0)
    THEN (IF a >= 0 THEN a ELSE -a) \div (IF b >= 0 THEN b ELSE -b)
    ELSE -((IF a >= 0 THEN a ELSE -a) \div (IF b >= 0 THEN b ELSE -b))

TruncRem(a, b) == a - b * TruncDiv(a, b)

\* the primitives generate_runtime_functions builds into the module
\* (generate_yaf_add .. generate_yaf_ge): they read the data field only,
\* except yaf_add, which looks at the tags for YAF_STRING first
LLPrimitive(fn, a, b, address) ==
    CASE fn = "yaf_add" ->
            IF a.tag = "String" \/ b.tag = "String"
            THEN YafStringConcat(address, a, b)
            ELSE YafMakeInt(WrapInt(a.data + b.data, I64Bits))
      [] fn = "yaf_sub" -> YafMakeInt(WrapInt(a.data - b.data, I64Bits))
      [] fn = "yaf_mul" -> YafMakeInt(WrapInt(a.data * b.data, I64Bits))
      [] fn = "yaf_div" -> YafMakeInt(TruncDiv(a.data, b.data))
      [] fn = "yaf_mod" -> YafMakeInt(TruncRem(a.data, b.data))
      [] fn = "yaf_eq"  -> YafMakeBool(IF a.data = b.data THEN 1 ELSE 0)
      [] fn = "yaf_ne"  -> YafMakeBool(IF a.data # b.data THEN 1 ELSE 0)
      [] fn = "yaf_lt"  -> YafMakeBool(IF a.data < b.data THEN 1 ELSE 0)
      [] fn = "yaf_le"  -> YafMakeBool(IF a.data <= b.data THEN 1 ELSE 0)
      [] fn = "yaf_gt"  -> YafMakeBool(IF a.data > b.data THEN 1 ELSE 0)
      [] fn = "yaf_ge"  -> YafMakeBool(IF a.data >= b.data THEN 1 ELSE 0)

\* a call of a function of the runtime: [v, out, heap], the value returned,
\* the text printed and the strings allocated
LLRuntimeCall(fn, a, heap) ==
    CASE fn = "yaf_make_int"    -> [v |-> YafMakeInt(a[1]), out |-> "", heap |-> heap]
      [] fn = "yaf_make_bool"   -> [v |-> YafMakeBool(a[1]), out |-> "", heap |-> heap]
      [] fn = "yaf_make_string" ->
            [v |-> YafMakeString(heap + 1, a[1]), out |-> "", heap |-> heap + 1]
      [] fn = "yaf_print_value_no_newline" ->
            [v |-> 0, out |-> YafPrintValueNoNewline(a[1]), heap |-> heap]
      [] fn = "printf" -> [v |-> 0, out |-> a[1], heap |-> heap]
      [] fn = "yaf_to_bool" ->
            [v |-> IF a[1].data # 0 THEN 1 ELSE 0, out |-> "", heap |-> heap]
      [] fn \in {"yaf_gc_collect", "yaf_gc_final_cleanup"} ->
            [v |-> 0, out |-> "", heap |-> heap]
      [] OTHER ->
            [v |-> LLPrimitive(fn, a[1], a[2], heap + 1), out |-> "",
             heap |-> IF fn = "yaf_add" /\ (a[1].tag = "String" \/ a[2].tag = "String")
                      THEN heap + 1 ELSE heap]

\* generate_yaf_make_array, generate_yaf_array_get, generate_yaf_array_set
ArrayFunctions == {"yaf_make_array", "yaf_array_get", "yaf_array_set"}

\* an element of malloc'ed memory nothing was stored to
Uninitialized == [tag |-> "Uninitialized", data |-> 0, s |-> ""]

\* the Values a load of an element may give
LLLoadElement(cell) == IF cell = Uninitialized THEN UndefValues ELSE {cell}

LLFrame(fn, params) ==
    [fn |-> fn, bb |-> 1, pc |-> 1, values |-> EmptyMap, params |-> params,
     locals |-> EmptyMap]

LLTop == llStack[Len(llStack)]

LLInstruction == llvm.module[LLTop.fn][LLTop.bb].instrs[LLTop.pc]

LLRunning ==
    /\ llPhase = "running"
    /\ llSteps < MaxSteps

\* the values one operand may have
LLOperand(frame, operand) ==
    CASE operand.o = "reg"   -> {frame.values[operand.id]}
      [] operand.o = "int"   -> {operand.n}
      [] operand.o = "str"   -> {operand.s}
      [] operand.o = "param" -> {frame.params[operand.i]}
      [] operand.o = "undef" -> UndefValues

\* the sequences of values the operands of an instruction may have
LLOperands(frame, args) ==
    {a \in [1..Len(args) -> UNION {LLOperand(frame, args[i]) : i \in 1..Len(args)}] :
        \A i \in 1..Len(args) : a[i] \in LLOperand(frame, args[i])}

\* the top frame of stack moves past its instruction, which defined v
LLAdvance(stack, v) ==
    LET top == stack[Len(stack)]
        id  == llvm.module[top.fn][top.bb].instrs[top.pc].id
    IN [stack EXCEPT ![Len(stack)].pc = @ + 1,
                     ![Len(stack)].values = MapPut(@, id, v)]

\* the driver runs the executable it linked
LLStart ==
    /\ llPhase = "verified"
    /\ llPhase' = "running"
    /\ llStack' = <<LLFrame(Runtime("main"), <<>>)>>
    \* global.set_initializer(const_zero)
    /\ llGlobals' = [n \in {llvm.global_variables[x].name :
                                x \in DOMAIN llvm.global_variables} |->
                        [tag |-> "Int", data |-> 0, s |-> ""]]
    /\ UNCHANGED <<program, rtVars, unit, driver, tcVars, cVars, llvm, llHeap, llArrays, llOut, llSteps,
                   llEvents>>

\* alloca, store, load and the integer instructions
LLExecute ==
    /\ LLRunning
    /\ LLInstruction.op \in {"alloca", "store", "load", "zext", "and", "or", "not",
                             "extract_data", "sub"}
    /\ LET instr == LLInstruction
           Local(ptr) == ptr.space = "local"
       IN CASE instr.op = "alloca" ->
                  /\ llStack' = LLAdvance(llStack, 0)
                  /\ UNCHANGED llGlobals
            [] instr.op = "store" ->
                  \E a \in LLOperands(LLTop, instr.args) :
                     IF Local(instr.ptr)
                     THEN /\ llStack' = LLAdvance(
                                 [llStack EXCEPT ![Len(llStack)].locals =
                                     MapPut(@, instr.ptr.name, a[1])], 0)
                          /\ UNCHANGED llGlobals
                     ELSE /\ llGlobals' = MapPut(llGlobals, instr.ptr.name, a[1])
                          /\ llStack' = LLAdvance(llStack, 0)
            [] instr.op = "load" ->
                  \* a local that was never stored to holds an undefined value
                  /\ \E v \in (IF ~Local(instr.ptr) THEN {llGlobals[instr.ptr.name]}
                               ELSE IF MapHas(LLTop.locals, instr.ptr.name)
                               THEN {LLTop.locals[instr.ptr.name]}
                               ELSE UndefValues) :
                        llStack' = LLAdvance(llStack, v)
                  /\ UNCHANGED llGlobals
            [] OTHER ->
                  /\ \E a \in LLOperands(LLTop, instr.args) :
                        llStack' = LLAdvance(llStack,
                            CASE instr.op = "zext" -> a[1]
                              [] instr.op = "and"  -> IF a[1] = 1 /\ a[2] = 1 THEN 1 ELSE 0
                              [] instr.op = "or"   -> IF a[1] = 1 \/ a[2] = 1 THEN 1 ELSE 0
                              [] instr.op = "not"  -> 1 - a[1]
                              [] instr.op = "extract_data" -> a[1].data
                              [] instr.op = "sub"  -> a[1] - a[2])
                  /\ UNCHANGED llGlobals
    /\ llSteps' = llSteps + 1
    /\ UNCHANGED <<program, rtVars, unit, driver, tcVars, cVars, llPhase, llvm, llHeap, llArrays, llOut,
                   llEvents>>

\* a call of a function of the runtime
LLCallRuntime ==
    /\ LLRunning
    /\ LLInstruction.op = "call"
    /\ Len(LLInstruction.fn) = 1
    /\ LLInstruction.fn[1] \notin ArrayFunctions
    /\ LET fn == LLInstruction.fn[1]
       IN \E a \in LLOperands(LLTop, LLInstruction.args) :
            IF fn \in {"yaf_div", "yaf_mod"} /\ a[2].data = 0
            THEN \* sdiv / srem by zero: undefined behaviour
                 \/ /\ llPhase' = "trapped"
                    /\ llEvents' = [llEvents EXCEPT !.division_by_zero = "failed"]
                    /\ UNCHANGED <<llStack, llHeap, llArrays, llOut>>
                 \/ /\ \E n \in UndefInts :
                          llStack' = LLAdvance(llStack, YafMakeInt(n))
                    /\ llEvents' = [llEvents EXCEPT !.division_by_zero = "returned"]
                    /\ UNCHANGED <<llPhase, llHeap, llArrays, llOut>>
            ELSE LET r == LLRuntimeCall(fn, a, llHeap)
                 IN /\ llStack' = LLAdvance(llStack, r.v)
                    /\ llHeap' = r.heap
                    /\ UNCHANGED llArrays
                    /\ llOut' = llOut \o r.out
                    /\ llEvents' =
                          IF fn = "yaf_add" /\ a[1].tag = "String" /\ a[2].tag = "String"
                          THEN [llEvents EXCEPT !.add =
                                   [seen |-> TRUE, left |-> a[1].s, right |-> a[2].s,
                                    failed |-> FALSE, tag |-> r.v.tag, s |-> r.v.s]]
                          ELSE IF fn \in {"yaf_gc_collect", "yaf_gc_final_cleanup"}
                          THEN [llEvents EXCEPT !.hooks = Append(@, fn)]
                          ELSE llEvents
                    /\ UNCHANGED llPhase
    /\ llSteps' = llSteps + 1
    /\ UNCHANGED <<program, rtVars, unit, driver, tcVars, cVars, llvm, llGlobals>>

\* a call of yaf_make_array, yaf_array_get or yaf_array_set. The memory of an
\* array is malloc'ed and not initialized; the element address is computed
\* from the index with no test against the length, so an access outside the
\* array is undefined behaviour: it may trap, read anything, write elsewhere.
LLCallArray ==
    /\ LLRunning
    /\ LLInstruction.op = "call"
    /\ Len(LLInstruction.fn) = 1
    /\ LLInstruction.fn[1] \in ArrayFunctions
    /\ LET fn == LLInstruction.fn[1]
           Inside(a) == /\ MapHas(llArrays, a[1].data)
                        /\ a[2].data + 1 \in 1..Len(llArrays[a[1].data])
           Trap == /\ llPhase' = "trapped"
                   /\ UNCHANGED <<llStack, llHeap, llArrays>>
       IN \E a \in LLOperands(LLTop, LLInstruction.args) :
            CASE fn = "yaf_make_array" ->
                    /\ llHeap' = llHeap + 1
                    /\ llArrays' = MapPut(llArrays, llHeap + 1,
                                          [i \in 1..a[1] |-> Uninitialized])
                    /\ llStack' = LLAdvance(llStack, [tag |-> "Array",
                                                      data |-> llHeap + 1, s |-> ""])
                    /\ UNCHANGED llPhase
              [] fn = "yaf_array_get" ->
                    IF Inside(a)
                    THEN /\ \E v \in LLLoadElement(llArrays[a[1].data][a[2].data + 1]) :
                              llStack' = LLAdvance(llStack, v)
                         /\ UNCHANGED <<llPhase, llHeap, llArrays>>
                    ELSE \/ Trap
                         \/ /\ \E v \in UndefValues : llStack' = LLAdvance(llStack, v)
                            /\ UNCHANGED <<llPhase, llHeap, llArrays>>
              [] fn = "yaf_array_set" ->
                    IF Inside(a)
                    THEN /\ llArrays' = [llArrays EXCEPT
                                            ![a[1].data][a[2].data + 1] = a[3]]
                         /\ llStack' = LLAdvance(llStack, 0)
                         /\ UNCHANGED <<llPhase, llHeap>>
                    ELSE \/ Trap
                         \/ /\ llStack' = LLAdvance(llStack, 0)
                            /\ UNCHANGED <<llPhase, llHeap, llArrays>>
    /\ llSteps' = llSteps + 1
    /\ UNCHANGED <<program, rtVars, unit, driver, tcVars, cVars, llvm, llGlobals, llOut, llEvents>>

\* a call of a user function
LLCallFunction ==
    /\ LLRunning
    /\ LLInstruction.op = "call"
    /\ Len(LLInstruction.fn) = 2
    /\ \E a \in LLOperands(LLTop, LLInstruction.args) :
          llStack' = Append(llStack, LLFrame(LLInstruction.fn, a))
    /\ llEvents' = [llEvents EXCEPT !.calls = @ + 1]
    /\ llSteps' = llSteps + 1
    /\ UNCHANGED <<program, rtVars, unit, driver, tcVars, cVars, llPhase, llvm, llGlobals, llHeap,
                   llArrays, llOut>>

\* ret: the entry point ends the program, a user function resumes its caller
LLReturn ==
    /\ LLRunning
    /\ LLInstruction.op = "ret"
    /\ IF Len(llStack) = 1
       THEN /\ llPhase' = "exited"
            /\ llStack' = <<>>
            /\ \E a \in LLOperands(LLTop, LLInstruction.args) :
                  llEvents' = [llEvents EXCEPT !.status = a[1]]
       ELSE /\ \E a \in LLOperands(LLTop, LLInstruction.args) :
                 /\ llStack' = LLAdvance(SubSeq(llStack, 1, Len(llStack) - 1), a[1])
                 /\ llEvents' = [llEvents EXCEPT !.ret =
                                    [seen |-> TRUE, implicit |-> LLInstruction.implicit,
                                     tag |-> a[1].tag]]
            /\ UNCHANGED llPhase
    /\ llSteps' = llSteps + 1
    /\ UNCHANGED <<program, rtVars, unit, driver, tcVars, cVars, llvm, llGlobals, llHeap, llArrays, llOut>>

\* br and the conditional br
LLBranch ==
    /\ LLRunning
    /\ LLInstruction.op \in {"br", "condbr"}
    /\ LET instr == LLInstruction
       IN IF instr.op = "br"
          THEN llStack' = [llStack EXCEPT ![Len(llStack)].bb = instr.target,
                                          ![Len(llStack)].pc = 1]
          ELSE \E a \in LLOperands(LLTop, instr.args) :
                  llStack' = [llStack EXCEPT
                                 ![Len(llStack)].bb = IF a[1] = 1 THEN instr.target
                                                      ELSE instr.else_target,
                                 ![Len(llStack)].pc = 1]
    /\ llSteps' = llSteps + 1
    /\ UNCHANGED <<program, rtVars, unit, driver, tcVars, cVars, llPhase, llvm, llGlobals, llHeap,
                   llArrays, llOut, llEvents>>

LLNext ==
    \/ LLDeclare
    \/ LLGenerateMain
    \/ LLGenerateFunction
    \/ LLVerify
    \/ LLStart
    \/ LLExecute
    \/ LLCallRuntime
    \/ LLCallArray
    \/ LLCallFunction
    \/ LLReturn
    \/ LLBranch

---------------------------------------------------------------------------
(* CodeGenerator (backend/c.rs). self.output is kept as the sequence of the  *)
(* lines emit_line wrote, each line as the C statement it spells, and each   *)
(* expression string as the C expression it spells. indent_level only       *)
(* changes white space and is left out.                                     *)

\* the C expressions generate_expression formats
CCall(fn, args) == [c |-> "call", fn |-> fn, args |-> args]

CVar(name) == [c |-> "var", name |-> name]

CConst(n) == [c |-> "const", n |-> n]

CStr(s) == [c |-> "str", s |-> s]

CNot(e) == [c |-> "!", e |-> e]

CAndAnd(l, r) == [c |-> "&&", l |-> l, r |-> r]

COrOr(l, r) == [c |-> "||", l |-> l, r |-> r]

CToBool(e) == CCall(Runtime("yaf_to_bool"), <<e>>)

CMakeBool(e) == CCall(Runtime("yaf_make_bool"), <<e>>)

CMakeVoid == CCall(Runtime("yaf_make_void"), <<>>)

\* CodeGenerator::new, and the history lowered_after_return
CNew ==
    [output |-> <<>>,
     functions |-> {},
     in_function |-> FALSE,
     declared_vars |-> {},
     lowered_after_return |-> 0,
     \* the Err generate_expression returned, if any
     err |-> None]

EmitLine(g, line) == [g EXCEPT !.output = Append(@, line)]

\* generate_expression (BinaryOp): the expression for operator on l and r
CBinaryOp(operator, l, r) ==
    CASE operator = "NotEqual" ->
            CMakeBool(CNot(CToBool(CCall(Runtime("yaf_eq"), <<l, r>>))))
      [] operator = "And" -> CMakeBool(CAndAnd(CToBool(l), CToBool(r)))
      [] operator = "Or"  -> CMakeBool(COrOr(CToBool(l), CToBool(r)))
      [] OTHER -> CCall(Runtime(BinaryOperatorFunction(operator)), <<l, r>>)

\* generate_expression (UnaryOp)
CUnaryOp(operator, o) ==
    IF operator = "Not"
    THEN CMakeBool(CNot(CToBool(o)))
    ELSE CCall(Runtime("yaf_sub"), <<CCall(Runtime("yaf_make_int"), <<CConst(0)>>), o>>)

\* generate_expression (BuiltinCall): the function of each arm
CLibraryFunction(name) ==
    CASE name = "abs" -> "yaf_math_abs"
      [] name = "max" -> "yaf_math_max"
      [] name = "min" -> "yaf_math_min"
      [] name = "pow" -> "yaf_math_pow"
      [] name = "length" -> "yaf_string_length"
      [] name = "upper" -> "yaf_string_upper"
      [] name = "lower" -> "yaf_string_lower"
      [] name = "concat" -> "yaf_string_concat"
      [] name = "read_file" -> "yaf_io_read_file"
      [] name = "write_file" -> "yaf_io_write_file"
      [] name = "file_exists" -> "yaf_io_file_exists"
      [] name = "now" -> "yaf_time_now"
      [] name = "now_millis" -> "yaf_time_now_millis"
      [] name = "sleep" -> "yaf_time_sleep"
      [] name = "str" -> "yaf_value_to_string"
      [] name = "int" -> "yaf_value_to_int"
      [] name = "float" -> "yaf_value_to_float"
      [] OTHER -> ""

RECURSIVE CGenerateExpression(_, _)
RECURSIVE CGenerateArguments(_, _, _, _)

\* "for (i, arg) in arguments.iter().enumerate()": [g, args]
CGenerateArguments(g, arguments, i, args) ==
    LET Push(a) == CGenerateArguments(a.g, arguments, i + 1, Append(args, a.e))
    IN IF i > Len(arguments) THEN [g |-> g, args |-> args]
       ELSE Push(CGenerateExpression(g, arguments[i]))

\* generate_expression: [g, e], e the C expression returned; a print emits
\* its own line and returns yaf_make_void()
CGenerateExpression(g, expr) ==
    CASE expr.k = "Literal" ->
            [g |-> g,
             e |-> CASE expr.value.tag = "Int" ->
                          CCall(Runtime("yaf_make_int"), <<CConst(expr.value.i)>>)
                     [] expr.value.tag = "Bool" ->
                          CMakeBool(CConst(expr.value.i))
                     [] expr.value.tag = "String" ->
                          CCall(Runtime("yaf_make_string"), <<CStr(expr.value.s)>>)]
      [] expr.k = "Variable" -> [g |-> g, e |-> CVar(expr.name)]
      [] expr.k = "FunctionCall" ->
            LET Emit(a) ==
                    IF expr.name = "print"
                    THEN [g |-> EmitLine(a.g, [c |-> "print", args |-> a.args]),
                          e |-> CMakeVoid]
                    ELSE [g |-> a.g, e |-> CCall(YafFunc(expr.name), a.args)]
            IN Emit(CGenerateArguments(g, expr.arguments, 1, <<>>))
      [] expr.k = "BinaryOp" ->
            LET Both(l, r) == [g |-> r.g, e |-> CBinaryOp(expr.operator, l.e, r.e)]
                Right(l) == Both(l, CGenerateExpression(l.g, expr.right))
            IN Right(CGenerateExpression(g, expr.left))
      [] expr.k = "UnaryOp" ->
            LET Wrap(o) == [g |-> o.g, e |-> CUnaryOp(expr.operator, o.e)]
            IN Wrap(CGenerateExpression(g, expr.operand))
      \* "yaf_make_array()" whatever the elements are
      [] expr.k = "ArrayLiteral" ->
            [g |-> g, e |-> CCall(Runtime("yaf_make_array"), <<>>)]
      \* "yaf_make_int(0)" whatever the array and the index are
      [] expr.k = "ArrayAccess" ->
            [g |-> g, e |-> CCall(Runtime("yaf_make_int"), <<CConst(0)>>)]
      [] expr.k = "BuiltinCall" ->
            LET Library(a) ==
                    IF CLibraryFunction(expr.name) # ""
                    THEN [g |-> a.g,
                          e |-> CCall(Runtime(CLibraryFunction(expr.name)),
                                      IF expr.name \in {"now", "now_millis"}
                                      THEN <<>> ELSE a.args)]
                    ELSE [g |-> [a.g EXCEPT !.err = Some("TypeError")],
                          e |-> CMakeVoid]
            IN Library(CGenerateArguments(g, expr.arguments, 1, <<>>))

RECURSIVE CGenerateStatement(_, _)
RECURSIVE CGenerateBlock(_, _, _)

\* generate_block: every statement of the block, in order
CGenerateBlock(g, block, i) ==
    IF i > Len(block) THEN g
    ELSE CGenerateBlock(
            CGenerateStatement(
                IF \E j \in 1..(i - 1) : block[j].k = "Return"
                THEN [g EXCEPT !.lowered_after_return = @ + 1]
                ELSE g,
                block[i]),
            block, i + 1)

\* generate_statement
CGenerateStatement(g, stmt) ==
    LET \* "yaf_value_t name = e;" and declared_vars.insert
        Declare(r) == [EmitLine(r.g, [c |-> "decl", name |-> stmt.name, e |-> r.e])
                          EXCEPT !.declared_vars = @ \cup {stmt.name}]
        \* "if (!yaf_to_bool(e)) break;"
        Break(r) == EmitLine(r.g, [c |-> "break_unless", e |-> CToBool(r.e)])
        \* "while (1) {", the condition, the body
        Loop(g0) == CGenerateBlock(
                        Break(CGenerateExpression(EmitLine(g0, [c |-> "while"]),
                                                  stmt.condition)),
                        stmt.body, 1)
    IN
    CASE stmt.k = "Declaration" -> Declare(CGenerateExpression(g, stmt.value))
      [] stmt.k = "Assignment" ->
            LET Assign(r) ==
                    IF stmt.name \in r.g.declared_vars
                    THEN EmitLine(r.g, [c |-> "assign", name |-> stmt.name, e |-> r.e])
                    ELSE Declare(r)
            IN Assign(CGenerateExpression(g, stmt.value))
      \* "yaf_array_set(name, index, value);"
      [] stmt.k = "ArrayAssignment" ->
            LET Set(i, v) == EmitLine(v.g, [c |-> "expr",
                                            e |-> CCall(Runtime("yaf_array_set"),
                                                        <<CVar(stmt.name), i.e, v.e>>)])
                Value(i)  == Set(i, CGenerateExpression(i.g, stmt.value))
            IN Value(CGenerateExpression(g, stmt.index))
      [] stmt.k = "If" ->
            LET Else(g1) ==
                    IF stmt.else_block # None
                    THEN CGenerateBlock(EmitLine(g1, [c |-> "else"]),
                                        stmt.else_block[1], 1)
                    ELSE g1
                Then(r) ==
                    EmitLine(
                      Else(CGenerateBlock(
                             EmitLine(r.g, [c |-> "if", e |-> CToBool(r.e)]),
                             stmt.then_block, 1)),
                      [c |-> "}"])
            IN Then(CGenerateExpression(g, stmt.condition))
      [] stmt.k = "While" -> EmitLine(Loop(g), [c |-> "}"])
      [] stmt.k = "For" ->
            EmitLine(CGenerateStatement(Loop(CGenerateStatement(g, stmt.init)),
                                        stmt.increment),
                     [c |-> "}"])
      [] stmt.k = "Return" ->
            LET Ret(r) == EmitLine(r.g, [c |-> "return", e |-> r.e, implicit |-> FALSE])
            IN IF stmt.value # None
               THEN Ret(CGenerateExpression(g, stmt.value[1]))
               ELSE Ret([g |-> g, e |-> CMakeVoid])
      [] stmt.k = "Expression" ->
            LET Emit(r) ==
                    IF stmt.expr.k = "FunctionCall" /\ stmt.expr.name # "print"
                    THEN EmitLine(r.g, [c |-> "expr", e |-> r.e])
                    ELSE r.g
            IN Emit(CGenerateExpression(g, stmt.expr))

\* generate_function: declared_vars is cleared, the body, and always
\* "return yaf_make_void();" before the closing brace
CGenerateFunction(g, function) ==
    [EmitLine(
       EmitLine(
         CGenerateBlock(
           EmitLine([g EXCEPT !.in_function = TRUE, !.declared_vars = {}],
                    [c |-> "function", name |-> YafFunc(function.name),
                     parameters |-> [i \in 1..Len(function.parameters) |->
                                        function.parameters[i].name]]),
           function.body, 1),
         [c |-> "return", e |-> CMakeVoid, implicit |-> TRUE]),
       [c |-> "}"])
     EXCEPT !.in_function = FALSE]

RECURSIVE CGenerateFunctions(_, _, _)
CGenerateFunctions(g, functions, i) ==
    IF i > Len(functions) THEN g
    ELSE CGenerateFunctions(CGenerateFunction(g, functions[i]), functions, i + 1)

RECURSIVE CGenerateFunctionDeclarations(_, _, _)
\* generate_function_declaration for functions[i..]:
\* "yaf_value_t yaf_func_<name>(yaf_value_t <parameter>, ...);"
CGenerateFunctionDeclarations(g, functions, i) ==
    IF i > Len(functions) THEN g
    ELSE CGenerateFunctionDeclarations(
            EmitLine(g, [c |-> "prototype", name |-> YafFunc(functions[i].name),
                         parameters |-> [j \in 1..Len(functions[i].parameters) |->
                                            functions[i].parameters[j].name]]),
            functions, i + 1)

\* generate(): the functions are registered, the runtime is written out (see CRuntime), then the
\* declarations of the user functions, the user functions and "int main() {",
\* the top-level statements and "return 0;"
CGenerateProgram(g, prog) ==
    EmitLine(
      EmitLine(
        CGenerateBlock(
          EmitLine(
            CGenerateFunctions(
              CGenerateFunctionDeclarations(
                [g EXCEPT !.functions = {prog.functions[i].name :
                                            i \in 1..Len(prog.functions)}],
                prog.functions, 1),
              prog.functions, 1),
            [c |-> "function", name |-> Runtime("main"), parameters |-> <<>>]),
          prog.main, 1),
        [c |-> "return", e |-> CConst(0), implicit |-> FALSE]),
      [c |-> "}"])

---------------------------------------------------------------------------
(* The driver hands the file to clang (main.rs, compile_with_c). The file    *)
(* holds two definitions of several functions of the runtime: the ones      *)
(* generate() writes and the ones generate_helper_functions() writes.       *)

\* functions generate() defines itself
FirstDefinitions ==
    {"yaf_to_bool", "yaf_eq", "yaf_lt", "yaf_gt", "yaf_le", "yaf_ge", "yaf_add",
     "yaf_sub", "yaf_mul", "yaf_div", "yaf_mod", "yaf_make_array"}

\* functions generate_helper_functions() defines
HelperDefinitions ==
    {"yaf_print_value", "yaf_make_int", "yaf_make_bool", "yaf_make_string",
     "yaf_make_void", "yaf_add", "yaf_sub", "yaf_mul", "yaf_div", "yaf_mod",
     "yaf_eq", "yaf_lt", "yaf_le", "yaf_gt", "yaf_ge", "yaf_to_bool"}

RECURSIVE CVariables(_)
\* the identifiers of variables a C expression mentions
CVariables(e) ==
    CASE e.c = "var"  -> {e.name}
      [] e.c = "call" -> UNION {CVariables(e.args[i]) : i \in 1..Len(e.args)}
      [] e.c = "!"    -> CVariables(e.e)
      [] e.c \in {"&&", "||"} -> CVariables(e.l) \cup CVariables(e.r)
      [] OTHER -> {}

RECURSIVE CCalls(_)
\* the functions a C expression calls
CCalls(e) ==
    CASE e.c = "call" -> {e.fn} \cup UNION {CCalls(e.args[i]) : i \in 1..Len(e.args)}
      [] e.c = "!"    -> CCalls(e.e)
      [] e.c \in {"&&", "||"} -> CCalls(e.l) \cup CCalls(e.r)
      [] OTHER -> {}

RECURSIVE CDiagnose(_, _, _, _)
\* the errors of the C compiler in lines[i..], each with the function it is
\* in; scopes are the identifiers declared in each block still open and fn
\* is the function the lines belong to. main returns int, a user function
\* yaf_value_t.
CDiagnose(lines, i, scopes, fn) ==
    IF i > Len(lines) THEN {}
    ELSE
    LET line    == lines[i]
        top     == Len(scopes)
        visible == UNION {scopes[j] : j \in 1..top}
        Error(cond, error) == IF cond THEN {[error |-> error, in |-> fn]} ELSE {}
        Undeclared(names) == Error(~(names \subseteq visible), "undeclared identifier")
        Push == Append(scopes, {})
        Pop  == SubSeq(scopes, 1, top - 1)
        \* a function called with no declaration above the line
        Called(es)  == UNION {CCalls(e) : e \in es}
        Declared    == {lines[j].name :
                           j \in {n \in 1..i : lines[n].c \in {"prototype", "function"}}}
        Defined     == {Runtime(f) : f \in FirstDefinitions \cup HelperDefinitions}
        Implicit(es) ==
            Error(~({f \in Called(es) : Len(f) = 2} \subseteq Declared),
                  "undeclared function")
            \cup Error(~({f \in Called(es) : Len(f) = 1} \subseteq Defined),
                       "undeclared library function")
    IN CASE line.c = "function" ->
               CDiagnose(lines, i + 1,
                         <<{line.parameters[j] : j \in 1..Len(line.parameters)}>>,
                         line.name)
         [] line.c = "prototype" -> CDiagnose(lines, i + 1, scopes, fn)
         [] line.c = "decl" ->
               Undeclared(CVariables(line.e) \ {line.name})
               \cup Implicit({line.e})
               \cup Error(line.name \in scopes[top], "redefinition")
               \cup CDiagnose(lines, i + 1,
                              [scopes EXCEPT ![top] = @ \cup {line.name}], fn)
         [] line.c = "assign" ->
               Undeclared(CVariables(line.e) \cup {line.name})
               \cup Implicit({line.e})
               \cup CDiagnose(lines, i + 1, scopes, fn)
         [] line.c = "if" ->
               Undeclared(CVariables(line.e)) \cup Implicit({line.e})
               \cup CDiagnose(lines, i + 1, Push, fn)
         [] line.c = "while" -> CDiagnose(lines, i + 1, Push, fn)
         [] line.c = "else"  -> CDiagnose(lines, i + 1, Append(Pop, {}), fn)
         [] line.c = "}"     -> CDiagnose(lines, i + 1, Pop, fn)
         [] line.c = "print" ->
               Undeclared(UNION {CVariables(line.args[j]) : j \in 1..Len(line.args)})
               \cup Implicit({line.args[j] : j \in 1..Len(line.args)})
               \cup CDiagnose(lines, i + 1, scopes, fn)
         [] line.c = "return" ->
               Undeclared(CVariables(line.e))
               \cup Implicit({line.e})
               \cup Error((fn = Runtime("main")) # (line.e.c = "const"),
                          "incompatible types")
               \cup CDiagnose(lines, i + 1, scopes, fn)
         [] OTHER ->
               Undeclared(CVariables(line.e)) \cup Implicit({line.e})
               \cup CDiagnose(lines, i + 1, scopes, fn)

\* everything the compiler reports on the generated file
CDiagnostics(lines) ==
    {[error |-> "redefinition of function", in |-> Runtime(f)] :
        f \in FirstDefinitions \cap HelperDefinitions}
    \cup CDiagnose(lines, 1, <<>>, <<>>)

---------------------------------------------------------------------------
(* Execution of the generated file. A yaf_value_t is [tag, data, s] as in    *)
(* the native backend; a C bool or int is an integer. The state of one      *)
(* execution is st = [env, out, status, v, implicit, events, fuel]: the     *)
(* variables of each open block of the running function, the text printed, *)
(* "ok" / "return" / "break" / "exit" / "fuel", the value of the expression *)
(* evaluated last, whether the return executed last was the one             *)
(* generate_function appends, the history, and the calls and iterations     *)
(* left. b = [defs, order] is what the compiler chose: which of the two     *)
(* definitions of a runtime function is in effect and the order in which    *)
(* the arguments of a call are evaluated.                                   *)

\* calls and loop iterations one execution may run
MaxFuel == 8

CValue(tag, data, s) == [tag |-> tag, data |-> data, s |-> s]

\* yaf_print_value (generate_helper_functions)
CPrintValue(v) ==
    CASE v.tag = "Int"    -> ToString(v.data)
      [] v.tag = "String" -> v.s
      [] v.tag = "Bool"   -> IF v.data # 0 THEN "true" ELSE "false"
      [] v.tag = "Void"   -> "void"

\* the functions of the runtime the generated file defines, on the arguments
\* a: [v, exit], the value returned, or exit(1)
CRuntime(fn, a, defs) ==
    LET Ret(v)  == [v |-> v, exit |-> FALSE]
        Exit    == [v |-> 0, exit |-> TRUE]
        \* "yaf_value_t yaf_make_int(int val)", "int int_val;"
        MakeInt(n) == Ret(CValue("Int", WrapInt(n, IntBits), ""))
        MakeBool(p) == Ret(CValue("Bool", IF p THEN 1 ELSE 0, ""))
        Ints    == a[1].tag = "Int" /\ a[2].tag = "Int"
        \* not both operands are Int: the definitions of generate() return v,
        \* the ones of generate_helper_functions() exit
        Invalid(v) == IF defs = "first" THEN v ELSE Exit
    IN CASE fn = "yaf_make_int"    -> MakeInt(a[1])
         [] fn = "yaf_make_bool"   -> MakeBool(a[1] # 0)
         [] fn = "yaf_make_string" -> Ret(CValue("String", 0, a[1]))
         [] fn = "yaf_make_void"   -> Ret(CValue("Void", 0, ""))
         \* "Simplified - arrays return int 0"
         [] fn = "yaf_make_array"  -> MakeInt(0)
         [] fn = "yaf_to_bool" ->
               Ret(CASE a[1].tag = "Bool" -> a[1].data
                     [] a[1].tag = "Int"  -> IF a[1].data # 0 THEN 1 ELSE 0
                     [] a[1].tag = "String" ->
                           IF defs = "second" /\ a[1].s # "" THEN 1 ELSE 0
                     [] OTHER -> 0)
         [] fn = "yaf_eq" ->
               MakeBool(/\ a[1].tag = a[2].tag
                    /\ CASE a[1].tag \in {"Int", "Bool"} -> a[1].data = a[2].data
                         [] a[1].tag = "String" -> defs = "second" /\ a[1].s = a[2].s
                         [] OTHER -> FALSE)
         [] fn = "yaf_lt" -> IF Ints THEN MakeBool(a[1].data < a[2].data) ELSE Invalid(MakeBool(FALSE))
         [] fn = "yaf_gt" -> IF Ints THEN MakeBool(a[1].data > a[2].data) ELSE Invalid(MakeBool(FALSE))
         [] fn = "yaf_le" -> IF Ints THEN MakeBool(a[1].data <= a[2].data) ELSE Invalid(MakeBool(FALSE))
         [] fn = "yaf_ge" -> IF Ints THEN MakeBool(a[1].data >= a[2].data) ELSE Invalid(MakeBool(FALSE))
         [] fn = "yaf_add" ->
               IF Ints THEN MakeInt(a[1].data + a[2].data)
               ELSE Invalid(IF a[1].tag = "String" \/ a[2].tag = "String"
                            THEN Ret(a[1]) ELSE MakeInt(0))
         [] fn = "yaf_sub" -> IF Ints THEN MakeInt(a[1].data - a[2].data) ELSE Invalid(MakeInt(0))
         [] fn = "yaf_mul" -> IF Ints THEN MakeInt(a[1].data * a[2].data) ELSE Invalid(MakeInt(0))
         [] fn = "yaf_div" ->
               IF Ints /\ a[2].data # 0 THEN MakeInt(TruncDiv(a[1].data, a[2].data))
               ELSE Invalid(MakeInt(0))
         [] fn = "yaf_mod" ->
               IF Ints /\ a[2].data # 0 THEN MakeInt(TruncRem(a[1].data, a[2].data))
               ELSE Invalid(MakeInt(0))

\* history: what a call of the runtime did on a zero divisor and on two Strings
CRecord(events, fn, a, c) ==
    IF fn \in {"yaf_div", "yaf_mod"} /\ a[1].tag = "Int" /\ a[2].tag = "Int"
       /\ a[2].data = 0
    THEN [events EXCEPT !.division_by_zero = IF c.exit THEN "failed" ELSE "returned"]
    ELSE IF fn = "yaf_add" /\ a[1].tag = "String" /\ a[2].tag = "String"
    THEN [events EXCEPT !.add =
             [seen |-> TRUE, left |-> a[1].s, right |-> a[2].s, failed |-> c.exit,
              tag |-> IF c.exit THEN "" ELSE c.v.tag,
              s |-> IF c.exit THEN "" ELSE c.v.s]]
    ELSE events

\* the innermost open block that declares name
CScopeOf(env, name) ==
    CHOOSE j \in 1..Len(env) :
        /\ MapHas(env[j], name)
        /\ \A k \in (j + 1)..Len(env) : ~MapHas(env[k], name)

RECURSIVE CScan(_, _, _)
\* from line i on, the "}" that closes the block open at depth 0, or its
\* "else" (0 when it has none)
CScan(i, depth, what) ==
    LET line == cgen.output[i]
    IN IF line.c \in {"if", "while", "function"} THEN CScan(i + 1, depth + 1, what)
       ELSE IF line.c = "}"
       THEN IF depth > 0 THEN CScan(i + 1, depth - 1, what)
            ELSE IF what = "}" THEN i ELSE 0
       ELSE IF line.c = "else" /\ depth = 0 /\ what = "else" THEN i
       ELSE CScan(i + 1, depth, what)

\* the line after the statement at pc
CAfter(pc) ==
    IF cgen.output[pc].c \in {"if", "while"} THEN CScan(pc + 1, 0, "}") + 1 ELSE pc + 1

RECURSIVE CEval(_, _, _)
RECURSIVE CEvalArguments(_, _, _, _)
RECURSIVE CApply(_, _, _)
RECURSIVE CPrint(_, _, _, _)
RECURSIVE CStatement(_, _, _)
RECURSIVE CBlock(_, _, _)
RECURSIVE CLoop(_, _, _)
RECURSIVE CExec(_, _, _)

\* the arguments of a call, in the order the compiler chose: r = [st, a]
CEvalArguments(args, k, r, b) ==
    IF k > Len(args) \/ r.st.status # "ok" THEN r
    ELSE LET idx == IF b.order = "left to right" THEN k ELSE Len(args) + 1 - k
             Put(st1) == [st |-> st1, a |-> [r.a EXCEPT ![idx] = st1.v]]
         IN CEvalArguments(args, k + 1, Put(CEval(args[idx], r.st, b)), b)

\* the call of fn once its arguments r.a are evaluated
CApply(fn, r, b) ==
    IF r.st.status # "ok" THEN r.st
    ELSE IF fn = Runtime("yaf_array_set")
    \* not defined in the generated file: the library's function, on a copy
    \* of the Value of the variable
    THEN [r.st EXCEPT !.v = 0,
                      !.status = IF b.array_set = "exits" THEN "exit" ELSE "ok"]
    ELSE IF Len(fn) = 1
    THEN LET Finish(c) == [r.st EXCEPT !.v = c.v,
                                       !.status = IF c.exit THEN "exit" ELSE "ok",
                                       !.events = CRecord(@, fn[1], r.a, c)]
         IN Finish(CRuntime(fn[1], r.a, b.defs))
    ELSE IF r.st.fuel = 0 THEN [r.st EXCEPT !.status = "fuel"]
    ELSE LET start  == CHOOSE i \in 1..Len(cgen.output) :
                           /\ cgen.output[i].c = "function"
                           /\ cgen.output[i].name = fn
             params == cgen.output[start].parameters
             frame  == [n \in {params[j] : j \in 1..Len(params)} |->
                           r.a[CHOOSE j \in 1..Len(params) : params[j] = n]]
             Resume(st1) ==
                 IF st1.status = "return"
                 THEN [st1 EXCEPT !.status = "ok",
                                  !.env = r.st.env,
                                  !.events.ret = [seen |-> TRUE,
                                                  implicit |-> st1.implicit,
                                                  tag |-> st1.v.tag]]
                 ELSE st1
         IN Resume(CExec(start + 1,
                         [r.st EXCEPT !.env = <<frame>>, !.fuel = @ - 1,
                                      !.events.calls = @ + 1], b))

\* the value of the C expression e
CEval(e, st, b) ==
    IF st.status # "ok" THEN st
    ELSE
    CASE e.c = "const" -> [st EXCEPT !.v = e.n]
      [] e.c = "str"   -> [st EXCEPT !.v = e.s]
      [] e.c = "var"   -> [st EXCEPT !.v = st.env[CScopeOf(st.env, e.name)][e.name]]
      [] e.c = "!" ->
            LET Negate(o) == IF o.status = "ok"
                             THEN [o EXCEPT !.v = IF @ = 0 THEN 1 ELSE 0]
                             ELSE o
            IN Negate(CEval(e.e, st, b))
      [] e.c = "&&" ->
            \* the right operand is evaluated only if the left one is true
            LET Right(l) == IF l.status # "ok" \/ l.v = 0 THEN l ELSE CEval(e.r, l, b)
            IN Right(CEval(e.l, st, b))
      [] e.c = "||" ->
            \* the right operand is evaluated only if the left one is false
            LET Right(l) == IF l.status # "ok" \/ l.v # 0 THEN l ELSE CEval(e.r, l, b)
            IN Right(CEval(e.l, st, b))
      [] e.c = "call" ->
            CApply(e.fn,
                   CEvalArguments(e.args, 1,
                                  [st |-> st, a |-> [i \in 1..Len(e.args) |-> 0]], b),
                   b)

\* the line of a print: printf(" ") before every argument but the first,
\* yaf_print_value of each argument, printf("\n")
CPrint(args, i, st, b) ==
    IF st.status # "ok" THEN st
    ELSE IF i > Len(args) THEN [st EXCEPT !.out = @ \o "\n"]
    ELSE LET Show(r) == IF r.status = "ok"
                        THEN [r EXCEPT !.out = @ \o CPrintValue(r.v)]
                        ELSE r
         IN CPrint(args, i + 1,
                   Show(CEval(args[i],
                              IF i > 1 THEN [st EXCEPT !.out = @ \o " "] ELSE st, b)),
                   b)

\* the lines from start to the end of their block, in a block of their own
CBlock(start, st, b) ==
    LET Leave(st1) == [st1 EXCEPT !.env = SubSeq(@, 1, Len(@) - 1)]
    IN Leave(CExec(start, [st EXCEPT !.env = Append(@, EmptyMap)], b))

\* "while (1) {" at line pc
CLoop(pc, st, b) ==
    IF st.fuel = 0 THEN [st EXCEPT !.status = "fuel"]
    ELSE LET Again(st1) == IF st1.status = "break" THEN [st1 EXCEPT !.status = "ok"]
                           ELSE IF st1.status = "ok" THEN CLoop(pc, st1, b)
                           ELSE st1
         IN Again(CBlock(pc + 1, [st EXCEPT !.fuel = @ - 1], b))

\* the statement at line pc
CStatement(pc, st, b) ==
    LET line == cgen.output[pc]
    IN CASE line.c = "decl" ->
               LET Bind(r) == IF r.status = "ok"
                              THEN [r EXCEPT !.env[Len(r.env)] = MapPut(@, line.name, r.v)]
                              ELSE r
               IN Bind(CEval(line.e, st, b))
         [] line.c = "assign" ->
               LET Bind(r) == IF r.status = "ok"
                              THEN [r EXCEPT !.env[CScopeOf(r.env, line.name)] =
                                                 MapPut(@, line.name, r.v)]
                              ELSE r
               IN Bind(CEval(line.e, st, b))
         [] line.c = "expr"  -> CEval(line.e, st, b)
         [] line.c = "print" -> CPrint(line.args, 1, st, b)
         [] line.c = "return" ->
               LET Ret(r) == IF r.status = "ok"
                             THEN [r EXCEPT !.status = "return",
                                            !.implicit = line.implicit]
                             ELSE r
               IN Ret(CEval(line.e, st, b))
         [] line.c = "break_unless" ->
               LET Break(r) == IF r.status = "ok" /\ r.v = 0
                               THEN [r EXCEPT !.status = "break"]
                               ELSE r
               IN Break(CEval(line.e, st, b))
         [] line.c = "if" ->
               LET Branch(c) ==
                       IF c.status # "ok" THEN c
                       ELSE IF c.v # 0 THEN CBlock(pc + 1, c, b)
                       ELSE IF CScan(pc + 1, 0, "else") # 0
                       THEN CBlock(CScan(pc + 1, 0, "else") + 1, c, b)
                       ELSE c
               IN Branch(CEval(line.e, st, b))
         [] line.c = "while" -> CLoop(pc, st, b)

\* the statements from line pc to the end of their block
CExec(pc, st, b) ==
    IF st.status # "ok" \/ cgen.output[pc].c \in {"}", "else"} THEN st
    ELSE CExec(CAfter(pc), CStatement(pc, st, b), b)

---------------------------------------------------------------------------
(* The C backend, one action per step of compile_with_c and of the           *)
(* executable                                                               *)

CIdle ==
    /\ cPhase = "new"
    /\ cgen = CNew
    /\ cBuild = [defs |-> "", order |-> "", array_set |-> "", diagnostics |-> {}]
    /\ cRun = [pc |-> 0, env |-> <<>>, fuel |-> 0]
    /\ cOut = ""
    /\ cEvents = NoEvents

\* codegen.generate(ast), which returns Ok for every program of these
CGenerate ==
    /\ tcAccepted
    /\ cPhase = "new"
    /\ cgen' = CGenerateProgram(cgen, program)
    /\ cPhase' = "generated"
    /\ UNCHANGED <<program, rtVars, unit, driver, tcVars, llVars, cBuild, cRun, cOut, cEvents>>

\* clang on the generated file: it reports the diagnostics; a compiler that
\* goes on after a second definition of a function keeps one of the two
CCompile ==
    /\ cPhase = "generated"
    /\ \E accepted \in BOOLEAN, defs \in {"first", "second"},
          order \in {"left to right", "right to left"},
          array_set \in {"returns", "exits"} :
          LET diagnostics == CDiagnostics(cgen.output)
          IN /\ accepted =>
                   \A d \in diagnostics :
                      d.error \in {"redefinition of function",
                                   "undeclared library function"}
             \* what the library's yaf_array_set does matters only when called
             /\ array_set = "exits" =>
                   \E d \in diagnostics : d.error = "undeclared library function"
             /\ cBuild' = [defs |-> IF accepted THEN defs ELSE "",
                           order |-> IF accepted THEN order ELSE "",
                           array_set |-> IF accepted THEN array_set ELSE "",
                           diagnostics |-> diagnostics]
             /\ cPhase' = IF accepted THEN "compiled" ELSE "rejected"
    /\ UNCHANGED <<program, rtVars, unit, driver, tcVars, llVars, cgen, cRun, cOut, cEvents>>

\* the executable enters main
CStart ==
    /\ cPhase = "compiled"
    /\ cPhase' = "running"
    /\ cRun' = [pc |-> 1 + CHOOSE i \in 1..Len(cgen.output) :
                             /\ cgen.output[i].c = "function"
                             /\ cgen.output[i].name = Runtime("main"),
                env |-> <<EmptyMap>>,
                fuel |-> MaxFuel]
    /\ UNCHANGED <<program, rtVars, unit, driver, tcVars, llVars, cgen, cBuild, cOut, cEvents>>

\* one statement of main
CExecute ==
    /\ cPhase = "running"
    /\ cgen.output[cRun.pc].c # "return"
    /\ LET Finish(st) ==
               /\ cRun' = [pc |-> CAfter(cRun.pc), env |-> st.env, fuel |-> st.fuel]
               /\ cOut' = st.out
               /\ cEvents' = st.events
               /\ cPhase' = CASE st.status = "exit" -> "failed"
                              [] st.status = "fuel" -> "timeout"
                              [] OTHER -> "running"
       IN Finish(CStatement(cRun.pc,
                            [env |-> cRun.env, out |-> cOut, status |-> "ok", v |-> 0,
                             implicit |-> FALSE, events |-> cEvents,
                             fuel |-> cRun.fuel],
                            cBuild))
    /\ UNCHANGED <<program, rtVars, unit, driver, tcVars, llVars, cgen, cBuild>>

\* "return 0;" of main
CExit ==
    /\ cPhase = "running"
    /\ cgen.output[cRun.pc].c = "return"
    /\ cPhase' = "exited"
    /\ cEvents' = [cEvents EXCEPT !.status = cgen.output[cRun.pc].e.n]
    /\ UNCHANGED <<program, rtVars, unit, driver, tcVars, llVars, cgen, cBuild, cRun, cOut>>

CNext ==
    \/ CGenerate
    \/ CCompile
    \/ CStart
    \/ CExecute
    \/ CExit

---------------------------------------------------------------------------
(* Programs handed to the type checker *)

TCNames == {"x", "y"}

\* statements without a nested block
TCAtoms ==
    {Declaration(n, "int", IntLit(1)) : n \in TCNames}
    \cup {Declaration("x", "int", StrLit("s")),
          Assignment("x", IntLit(2)),
          ExpressionStmt(FunctionCall("print", <<Variable("x")>>)),
          Return(None)}

TCDeclarations == {Declaration(n, "int", IntLit(1)) : n \in TCNames}

BlocksUpTo(atoms, n) == UNION {[1..m -> atoms] : m \in 0..n}

TCBlocks == BlocksUpTo(TCAtoms, MaxBlockLen)

TCConditions == {BoolLit(TRUE), Variable("x")}

TCCompounds ==
    {If(c, b, None) : c \in TCConditions, b \in TCBlocks}
    \cup {If(BoolLit(TRUE), b, Some(<<d>>)) : b \in TCBlocks, d \in TCDeclarations}
    \cup {While(c, b) : c \in TCConditions, b \in TCBlocks}
    \cup {For(Assignment("i", IntLit(0)),
              BinaryOp(Variable("i"), "Less", IntLit(3)),
              Assignment("i", BinaryOp(Variable("i"), "Add", IntLit(1))),
              b) : b \in TCBlocks}

\* a body: at most one statement, a nested statement, at most two declarations
TCBodies ==
    {pre \o <<c>> \o post :
        pre \in BlocksUpTo(TCAtoms, 1), c \in TCCompounds,
        post \in BlocksUpTo(TCDeclarations, 2)}

\* programs that are top-level declarations and assignments only
TopLevelAtoms ==
    {Declaration("x", "int", IntLit(1)),
     Assignment("x", IntLit(2)),
     Assignment("x", StrLit("s")),
     Assignment("y", Variable("x"))}

TopLevelPrograms ==
    {Program(<<>>, main) : main \in BlocksUpTo(TopLevelAtoms, MaxBlockLen + 1)}

TCPrograms ==
    {Program(<<>>, main) : main \in TCBodies}
    \cup {Program(<<>>, <<Assignment("x", ArrayLiteral(<<IntLit(1)>>)),
                          ArrayAssignment("x", IntLit(0), e)>>) :
            e \in {IntLit(1), StrLit("s")}}
    \cup {Program(<<Function("f", ps, "void", body)>>, main) :
            ps \in {<<>>, <<Parameter("y", "int")>>},
            body \in {pre \o <<c>> \o post :
                        pre \in BlocksUpTo(TCDeclarations, 1),
                        c \in {k \in TCCompounds : k.condition = BoolLit(TRUE)},
                        post \in BlocksUpTo(TCDeclarations, 1)},
            main \in {<<>>, <<Assignment("x", IntLit(2))>>}}
    \cup TopLevelPrograms

InitTC ==
    /\ program \in TCPrograms
    /\ unit = [fn |-> "", args |-> <<>>, results |-> EmptyMap]
    /\ driver = NoDriver
    /\ RTIdle
    /\ TCIdle
    /\ LLIdle
    /\ CIdle

SpecTC == InitTC /\ [][TCNext]_vars

---------------------------------------------------------------------------
(* Scoping of declarations in the type checker *)

\* C8: a Declaration of a name already declared in the scope it appears in is
\* rejected; a well-typed Declaration of a name that was declared only in
\* blocks (if/else branch, while body, for loop) that have been left, and in
\* no scope still open, is accepted.
C8_RedeclarationRule ==
    tcLast.seen =>
        /\ tcLast.same => ~tcLast.accepted
        /\ (tcLast.welltyped /\ tcLast.exited /\ ~tcLast.same /\ ~tcLast.enclosing)
               => tcLast.accepted

\* C8: a name declared in a block, declared again (accepted) after the block
\* was left, and then declared a third time in that same scope (rejected)
C8_Witness ==
    /\ tcLast.seen
    /\ tcLast.welltyped
    /\ tcLast.exited
    /\ tcLast.same
    /\ ~tcLast.accepted
    /\ tcErr # None

\* C9: a well-typed Declaration, inside a nested block, of a name declared in
\* an enclosing scope and not in the block itself is accepted
C9_ShadowingAccepted ==
    (tcLast.seen /\ tcLast.welltyped /\ tcLast.enclosing /\ ~tcLast.same)
        => tcLast.accepted

---------------------------------------------------------------------------
(* The compiler on whole programs: type checker, then both backends, then    *)
(* the execution of what each backend emitted                               *)

\* integer literals of the programs are 0..MaxInt
MaxInt == 1

\* arguments of a print call
MaxPrintArgs == 2

\* length of an array literal
MaxArrayLen == 2

Call(name, as) == ExpressionStmt(FunctionCall(name, as))

Programs ==
    LET Ints    == {IntLit(n) : n \in 0..MaxInt}
        Strs    == {StrLit(s) : s \in {"", "a", "b"}}
        Atoms   == Ints \cup {StrLit("a"), BoolLit(TRUE)}
        x       == Variable("x")
        i       == Variable("i")
        Numeric == {"Add", "Subtract", "Multiply", "Divide", "Modulo", "Equal",
                    "NotEqual", "Less", "LessEqual", "Greater", "GreaterEqual"}
        \* print with any number of arguments
        Prints  == {Program(<<>>, <<Call("print", as)>>) :
                        as \in UNION {[1..n -> Atoms] : n \in 0..MaxPrintArgs}}
        \* every arithmetic and comparison operator on integers; + = != on strings
        Binary  == {Program(<<>>, <<Call("print", <<BinaryOp(a, op, b)>>)>>) :
                        a \in Ints, b \in Ints, op \in Numeric}
                   \cup {Program(<<>>, <<Call("print", <<BinaryOp(a, op, b)>>)>>) :
                        a \in Strs, b \in Strs, op \in {"Add", "Equal", "NotEqual"}}
        \* L && R and L || R with a call that prints in R
        Logic   == {Program(<<Function("f", <<>>, "bool",
                                <<Call("print", <<StrLit("f")>>), Return(Some(BoolLit(r)))>>)>>,
                            <<Assignment("x", BinaryOp(BoolLit(l), op, FunctionCall("f", <<>>))),
                              Call("print", <<x>>)>>) :
                        l \in BOOLEAN, r \in BOOLEAN, op \in {"And", "Or"}}
        \* bodies that end without a return, or go on after one
        Bodies  == {<<>>,
                    <<If(Variable("c"), <<Return(Some(IntLit(1)))>>, None)>>,
                    <<If(Variable("c"), <<Return(Some(IntLit(1)))>>,
                         Some(<<Return(Some(IntLit(0)))>>))>>,
                    <<Return(Some(IntLit(1)))>>,
                    <<Return(Some(IntLit(1))), Call("print", <<IntLit(0)>>)>>,
                    <<While(Variable("c"), <<Return(Some(IntLit(1)))>>)>>,
                    <<If(Variable("c"),
                         <<Return(Some(IntLit(1))), Call("print", <<IntLit(0)>>)>>,
                         Some(<<Call("print", <<IntLit(1)>>)>>))>>,
                    <<If(Variable("c"),
                         <<If(Variable("c"), <<Return(Some(IntLit(1)))>>,
                              Some(<<Return(Some(IntLit(0)))>>))>>,
                         None)>>}
        Returns == {Program(<<Function("f", <<Parameter("c", "bool")>>, "int", body)>>,
                            <<Assignment("x", FunctionCall("f", <<BoolLit(c)>>)),
                              Call("print", <<x>>)>>) :
                        body \in Bodies, c \in BOOLEAN}
        \* a function that uses a variable of the top level
        Globals == {Program(<<Function("f", <<>>, "void", <<use>>)>>,
                            <<intro, Call("f", <<>>), Call("print", <<x>>)>>) :
                        intro \in {Assignment("x", IntLit(1)),
                                   Declaration("x", "int", IntLit(1))},
                        use \in {Assignment("x", IntLit(0)), Call("print", <<x>>)}}
        \* loops
        Loops   == {Program(<<>>,
                        <<For(Assignment("i", IntLit(0)),
                              BinaryOp(i, "Less", IntLit(n)),
                              Assignment("i", BinaryOp(i, "Add", IntLit(1))),
                              <<Call("print", <<i>>)>>)>>) : n \in 0..MaxInt}
                   \cup {Program(<<>>,
                        <<Declaration("x", "int", IntLit(n)),
                          While(BinaryOp(x, "Greater", IntLit(0)),
                                <<Assignment("x", BinaryOp(x, "Subtract", IntLit(1))),
                                  Call("print", <<UnaryOp("Minus", x),
                                                  UnaryOp("Not", x)>>)>>)>>) :
                        n \in 0..MaxInt}
        \* two functions that call each other, in both textual orders, called
        \* from the top level
        c       == Variable("c")
        F       == Function("f", <<Parameter("c", "bool")>>, "int",
                            <<If(c, <<Return(Some(FunctionCall("g", <<c>>)))>>, None),
                              Return(Some(IntLit(0)))>>)
        G       == Function("g", <<Parameter("c", "bool")>>, "int",
                            <<Return(Some(BinaryOp(IntLit(1), "Add",
                                 FunctionCall("f", <<UnaryOp("Not", c)>>))))>>)
        Order   == {Program(fs, <<Call("print", <<FunctionCall(n, <<BoolLit(b)>>)>>)>>) :
                        fs \in {<<F, G>>, <<G, F>>}, n \in {"f", "g"}, b \in BOOLEAN}
        \* an array of length n, a[k] = 1, then every element is read
        a       == Variable("a")
        Zeros(n) == [j \in 1..n |-> IntLit(0)]
        Reads(n) == [j \in 1..n |-> Call("print", <<ArrayAccess(a, IntLit(j - 1))>>)]
        Arrays  == {Program(<<>>, <<Assignment("a", ArrayLiteral(Zeros(n))),
                                    ArrayAssignment("a", IntLit(k), IntLit(1))>>
                                  \o Reads(n)) :
                        n \in 1..MaxArrayLen, k \in 0..(MaxArrayLen - 1)}
        \* for (i = lo; i <= hi; i = i + 1) { print(i) }
        Counts  == {Program(<<>>,
                        <<For(Assignment("i", IntLit(lo)),
                              BinaryOp(i, "LessEqual", IntLit(hi)),
                              Assignment("i", BinaryOp(i, "Add", IntLit(1))),
                              <<Call("print", <<i>>)>>)>>) :
                        lo \in 0..MaxInt, hi \in 0..(MaxInt + 1)}
        \* a global, a parameter and a local whose names are a base name or a
        \* base name followed by an underscore and digits
        Names   == {Program(<<Function("f", <<Parameter(p, "int")>>, "void",
                                       <<Declaration(l, "int", Variable(p))>>)>>,
                            <<Assignment("x", IntLit(0)), Assignment("x_1", IntLit(1)),
                              Call("f", <<IntLit(1)>>)>>) :
                        p \in {"x", "x_1"}, l \in {"y", "y_3"}}
        \* a variable first assigned inside a nested block and again after it,
        \* and an assignment to a parameter
        Scopes  == {Program(<<>>, <<If(BoolLit(TRUE), <<Assignment("x", IntLit(1))>>, None),
                                    Assignment("x", IntLit(0)),
                                    Call("print", <<x>>)>>),
                    Program(<<Function("f", <<Parameter("c", "bool")>>, "void",
                                       <<Assignment("c", BoolLit(FALSE))>>)>>,
                            <<Call("f", <<BoolLit(TRUE)>>)>>)}
    IN Prints \cup Binary \cup Logic \cup Returns \cup Globals \cup Loops \cup Order
       \cup Arrays \cup Counts \cup Names \cup Scopes

NoUnit == [fn |-> "", args |-> <<>>, results |-> EmptyMap]

Init ==
    /\ program \in Programs
    /\ unit = NoUnit
    /\ driver = NoDriver
    /\ RTIdle
    /\ TCIdle
    /\ LLIdle
    /\ CIdle

Next ==
    \/ TCNext
    \/ LLNext
    \/ CNext

Spec == Init /\ [][Next]_vars

---------------------------------------------------------------------------
(* The two backends on the same program *)

\* C1: when the executable of the C backend and the executable of the native
\* backend both ran the program to its end, they printed the same text.
C1_SameObservableEffects ==
    (cPhase = "exited" /\ llPhase = "exited") => cOut = llOut

\* the first top-level statement assigns L && R or L || R, L a literal and R
\* the call of a user function
LogicWithCall ==
    /\ program.main # <<>>
    /\ program.main[1].k = "Assignment"
    /\ program.main[1].value.k = "BinaryOp"
    /\ program.main[1].value.operator \in {"And", "Or"}
    /\ program.main[1].value.left.k = "Literal"
    /\ program.main[1].value.right.k = "FunctionCall"

\* C2: in a program whose only call of a user function is the right operand
\* of && or ||, an execution that ran to its end has made that call exactly
\* once, whatever the left operand, in both backends.
C2_BothOperandsEvaluated ==
    LogicWithCall =>
        /\ llPhase = "exited" => llEvents.calls = 1
        /\ cPhase = "exited" => cEvents.calls = 1

\* C3: a call that returned by reaching the end of the function's body, and
\* not by a return statement, yielded a Value of tag Void, in both backends.
C3_ImplicitReturnIsVoid ==
    /\ (llEvents.ret.seen /\ llEvents.ret.implicit) => llEvents.ret.tag = "Void"
    /\ (cEvents.ret.seen /\ cEvents.ret.implicit) => cEvents.ret.tag = "Void"

\* C4: every basic block of a function the native backend has lowered, and of
\* the entry point, has exactly one terminator, its last instruction.
C4_OneTerminatorPerBlock ==
    llPhase \in {"functions", "verified", "failed", "running", "trapped", "exited"} =>
        \A f \in DOMAIN llvm.module :
            \A b \in 1..Len(llvm.module[f]) : WellFormedBlock(llvm.module[f][b])

\* C5: neither backend has lowered a statement that follows a return
\* statement in the same block.
C5_NothingLoweredAfterReturn ==
    /\ llvm.lowered_after_return = 0
    /\ cgen.lowered_after_return = 0

\* C6: a division or a remainder by zero never returned a Value, in either
\* backend.
C6_DivisionByZeroFails ==
    /\ llEvents.division_by_zero # "returned"
    /\ cEvents.division_by_zero # "returned"

\* C7: the add primitive on two Strings s1 and s2 returned a String whose
\* content is s1 followed by s2, in both backends.
C7_StringAddConcatenates ==
    \A ev \in {llEvents.add, cEvents.add} :
        ev.seen => (~ev.failed /\ ev.tag = "String" /\ ev.s = ev.left \o ev.right)

\* the names the top-level statements introduce
TopLevelNames ==
    {program.main[i].name :
        i \in {j \in 1..Len(program.main) :
                  program.main[j].k \in {"Assignment", "Declaration"}}}

\* the parameters of function name and the names its body declares
OwnNames(name) ==
    LET function == program.functions[CHOOSE i \in 1..Len(program.functions) :
                                         program.functions[i].name = name]
    IN {function.parameters[i].name : i \in 1..Len(function.parameters)}
       \cup {function.body[i].name :
                i \in {j \in 1..Len(function.body) :
                          function.body[j].k = "Declaration"}}

\* C10: a name a top-level statement introduces, read or assigned in the body
\* of a user function that does not declare it, resolved to global storage in
\* the native backend; no lowering failed on an undefined variable and the C
\* compiler met no undeclared identifier in a user function.
C10_TopLevelNamesAreGlobal ==
    /\ llvm.err # Some("Undefined variable")
    /\ \A r \in llvm.resolved :
          (Len(r.fn) = 2 /\ r.name \in TopLevelNames /\ r.name \notin OwnNames(r.fn[2]))
              => r.storage = "global"
    /\ \A d \in cBuild.diagnostics :
          Len(d.in) = 2 => d.error # "undeclared identifier"

\* C11: when the executable of either backend has returned from its entry
\* point, the collection hook was called exactly once, then the final-cleanup
\* hook exactly once, and the status returned is 0
C11_EntryPointCallsHooks ==
    /\ llPhase = "exited" =>
          /\ llEvents.hooks = <<"yaf_gc_collect", "yaf_gc_final_cleanup">>
          /\ llEvents.status = 0
    /\ cPhase = "exited" =>
          /\ cEvents.hooks = <<"yaf_gc_collect", "yaf_gc_final_cleanup">>
          /\ cEvents.status = 0

---------------------------------------------------------------------------
(* Calls of user functions *)

RECURSIVE CallsOf(_)
\* the instructions of a function of the module that call a user function
CallsOf(blocks) ==
    IF blocks = <<>> THEN {}
    ELSE {blocks[1].instrs[i].fn[2] :
             i \in {j \in 1..Len(blocks[1].instrs) :
                       /\ blocks[1].instrs[j].op = "call"
                       /\ Len(blocks[1].instrs[j].fn) = 2}}
         \cup CallsOf(Tail(blocks))

\* C12: whatever the textual order of the functions, lowering never fails on
\* an undefined function, every call the native backend built calls a function
\* declared in the module, and the C compiler meets no call of a function that
\* is not declared above it.
C12_CallsResolveInAnyOrder ==
    /\ llvm.err # Some("Undefined function")
    /\ \A f \in DOMAIN llvm.module : CallsOf(llvm.module[f]) \subseteq llvm.functions
    /\ \A d \in cBuild.diagnostics : d.error # "undeclared function"

\* C12: a program whose first function calls the second one, defined below
\* it, and whose second function calls the first, ran to its end in both
\* executables with both functions called
C12_Witness ==
    /\ Len(program.functions) = 2
    /\ program.functions[1].name = "f"
    /\ program.functions[2].name = "g"
    /\ llPhase = "exited"
    /\ llEvents.calls = 3
    /\ cPhase = "exited"
    /\ cEvents.calls = 3

---------------------------------------------------------------------------
(* Arrays *)

\* the program allocates an array, sets one element inside it to 1 and
\* prints every element
ArraySetThenGet ==
    /\ Len(program.main) >= 2
    /\ program.main[2].k = "ArrayAssignment"
    /\ program.main[2].index.value.i < Len(program.main[1].value.elements)

RECURSIVE ElementsPrinted(_, _, _)
\* what printing the elements j..n-1 of an array of n zeros writes once
\* element k was set to 1
ElementsPrinted(n, k, j) ==
    IF j >= n THEN ""
    ELSE (IF j = k THEN "1" ELSE "0") \o "\n" \o ElementsPrinted(n, k, j + 1)

\* C13: after a[k] = 1 on an array of n zeros, 0 <= k < n, reading a[k] gives
\* 1 and reading every other element gives 0, in the executable of either
\* backend.
C13_ArraySetThenGet ==
    ArraySetThenGet =>
        LET expected == ElementsPrinted(Len(program.main[1].value.elements),
                                        program.main[2].index.value.i, 0)
        IN /\ llPhase = "exited" => llOut = expected
           /\ cPhase = "exited" => cOut = expected

---------------------------------------------------------------------------
(* The functions of the runtime on their own: one call, applied by the       *)
(* function the native backend builds into the module and by each of the     *)
(* definitions the C backend writes into the generated file. The arguments   *)
(* of an arithmetic call are integer literals, lowered as generate_expression *)
(* lowers a Literal: through yaf_make_int.                                    *)

\* Values a function of the runtime may be handed: data is the payload, for
\* a String or an Array the address, for a Float the bits
UnitValues ==
    {[tag |-> "Bool", data |-> d, s |-> ""] : d \in {0, 1}}
    \cup {[tag |-> "Int", data |-> d, s |-> ""] : d \in {-1, 0, 1, 2}}
    \cup {[tag |-> "String", data |-> 1, s |-> chars] : chars \in {"", "a"}}
    \cup {[tag |-> tg, data |-> d, s |-> ""] : tg \in {"Float", "Void"}, d \in {0, 1}}
    \cup {[tag |-> "Array", data |-> 1, s |-> ""]}

Arithmetic == {"yaf_add", "yaf_sub", "yaf_mul"}

UnitCalls ==
    {[fn |-> "yaf_to_bool", args |-> <<v>>, results |-> EmptyMap] : v \in UnitValues}
    \cup {[fn |-> fn, args |-> <<a, b>>, results |-> EmptyMap] :
            fn \in Arithmetic,
            a \in -(2^(I64Bits - 1))..(2^(I64Bits - 1) - 1),
            b \in -(2^(I64Bits - 1))..(2^(I64Bits - 1) - 1)}

\* the function the native backend generates
UnitNative ==
    /\ ~MapHas(unit.results, "native")
    /\ LET MakeInt(n) == LLRuntimeCall("yaf_make_int", <<n>>, 0).v
           args == IF unit.fn \in Arithmetic
                   THEN <<MakeInt(unit.args[1]), MakeInt(unit.args[2])>>
                   ELSE unit.args
       IN unit' = [unit EXCEPT !.results =
                      MapPut(@, "native",
                             [exit |-> FALSE, v |-> LLRuntimeCall(unit.fn, args, 0).v])]
    /\ UNCHANGED <<program, rtVars, driver, tcVars, llVars, cVars>>

\* the function the C backend writes: the definition of generate() or the
\* one of generate_helper_functions()
UnitC ==
    /\ \E defs \in {"first", "second"} :
          LET MakeInt(n) == CRuntime("yaf_make_int", <<n>>, defs).v
              args == IF unit.fn \in Arithmetic
                      THEN <<MakeInt(unit.args[1]), MakeInt(unit.args[2])>>
                      ELSE unit.args
          IN /\ ~MapHas(unit.results, defs)
             /\ unit' = [unit EXCEPT !.results =
                            MapPut(@, defs, CRuntime(unit.fn, args, defs))]
    /\ UNCHANGED <<program, rtVars, driver, tcVars, llVars, cVars>>

InitRuntime ==
    /\ program = Program(<<>>, <<>>)
    /\ unit \in UnitCalls
    /\ driver = NoDriver
    /\ RTIdle
    /\ TCIdle
    /\ LLIdle
    /\ CIdle

NextRuntime ==
    \/ UnitNative
    \/ UnitC

SpecRuntime == InitRuntime /\ [][NextRuntime]_vars

\* C14: to_bool of a Bool is its payload, of an Int whether its payload is not
\* zero, and of a Value of any other tag false, whichever backend's function
\* is applied.
C14_ToBool ==
    unit.fn = "yaf_to_bool" =>
        \A k \in DOMAIN unit.results :
            LET val == unit.args[1]
            IN /\ ~unit.results[k].exit
               /\ unit.results[k].v =
                     CASE val.tag = "Bool" -> val.data
                       [] val.tag = "Int"  -> IF val.data # 0 THEN 1 ELSE 0
                       [] OTHER -> 0

\* the integer a + b, a - b or a * b
Exact(fn, a, b) ==
    CASE fn = "yaf_add" -> a + b
      [] fn = "yaf_sub" -> a - b
      [] fn = "yaf_mul" -> a * b

\* C20: for integer literals a and b of the i64 range whose sum, difference or
\* product is in that range too, the lowered a + b, a - b and a * b give an
\* Int Value whose payload is that integer, whichever backend's functions are
\* applied.
C20_ArithmeticIsExact ==
    (/\ unit.fn \in Arithmetic
     /\ InRange(Exact(unit.fn, unit.args[1], unit.args[2]), I64Bits)) =>
        \A k \in DOMAIN unit.results :
            /\ ~unit.results[k].exit
            /\ unit.results[k].v.tag = "Int"
            /\ unit.results[k].v.data = Exact(unit.fn, unit.args[1], unit.args[2])

---------------------------------------------------------------------------
(* Loops *)

\* the program is for (i = a; i <= b; i = i + 1) { print(i) }
CountingLoop ==
    /\ Len(program.main) = 1
    /\ program.main[1].k = "For"
    /\ program.main[1].condition.operator = "LessEqual"

RECURSIVE Counted(_, _)
\* what print(i) writes for i = a, a + 1, ..., b
Counted(a, b) ==
    IF a > b THEN "" ELSE ToString(a) \o "\n" \o Counted(a + 1, b)

\* C15: for (i = a; i <= b; i = i + 1) { print(i) } run to its end has printed
\* a, a + 1, ..., b in this order, each once, and nothing when a > b, in the
\* executable of either backend.
C15_ForLoopCounts ==
    CountingLoop =>
        LET expected == Counted(program.main[1].init.value.value.i,
                                program.main[1].condition.right.value.i)
        IN /\ llPhase = "exited" => llOut = expected
           /\ cPhase = "exited" => cOut = expected

\* C15: the loop from 0 to 2 ran three times in both executables
C15_Witness ==
    /\ CountingLoop
    /\ program.main[1].init.value.value.i = 0
    /\ program.main[1].condition.right.value.i = 2
    /\ llPhase = "exited"
    /\ llOut = "0\n1\n2\n"
    /\ cPhase = "exited"
    /\ cOut = "0\n1\n2\n"

\* C15: a loop whose lower bound is above its upper bound ran to its end in
\* both executables
C15_WitnessEmpty ==
    /\ CountingLoop
    /\ program.main[1].init.value.value.i > program.main[1].condition.right.value.i
    /\ llPhase = "exited"
    /\ cPhase = "exited"

---------------------------------------------------------------------------
(* The command line driver (main.rs): compile and run.  The artifacts are    *)
(* named by their extension: "c", "ll", "o", "yaf_runtime.o", "gc.o" and    *)
(* "exe", the output path itself.                                           *)

\* main() returns what the command returned: a process whose main returns Err
\* exits with status 1
Returned(d, result) ==
    [d EXCEPT !.pc = "returned", !.exit = IF result = "Ok" THEN 0 ELSE 1]

\* compile_program returns result to its caller: main() for compile, and
\* run_program, which goes on only after Ok (the ? operator)
CompileReturns(d, result) ==
    IF d.command = "run" /\ result = "Ok"
    THEN [d EXCEPT !.pc = "run_program", !.compiled = result]
    ELSE Returned([d EXCEPT !.compiled = result], result)

\* main() and compile_program up to the choice of the backend: run_program
\* passes false for every flag; the Cranelift backend is compile_with_c
\* without keep_temps
CompileProgram ==
    /\ driver.pc = "main"
    /\ tcPhase = "done"
    /\ \E command \in {"compile", "run"}, backend \in {"llvm", "cranelift", "c"},
          emit_ir, emit_llvm, emit_asm, keep_temps \in BOOLEAN :
          LET d == [driver EXCEPT !.command = command, !.backend = backend,
                                  !.emit_ir = emit_ir, !.emit_llvm = emit_llvm,
                                  !.emit_asm = emit_asm,
                                  !.keep_temps = keep_temps /\ backend = "c"]
          IN /\ command = "run" => ~(emit_ir \/ emit_llvm \/ emit_asm \/ keep_temps)
             /\ backend # "llvm" => ~(emit_ir \/ emit_llvm \/ emit_asm)
             /\ backend # "c" => ~keep_temps
             /\ driver' = IF tcErr # None
                          THEN CompileReturns(d, "Err")
                          ELSE [d EXCEPT !.pc = IF backend = "llvm"
                                                THEN "compile_with_llvm"
                                                ELSE "compile_with_c"]
    /\ UNCHANGED <<program, rtVars, unit, tcVars, llVars, cVars>>

\* compile_with_llvm up to the call of link_executable: generate() and
\* verify() have returned; emit_to_file writes the object file or fails
CompileWithLLVM ==
    /\ driver.pc = "compile_with_llvm"
    /\ llPhase \in {"failed", "verified"}
    /\ \E emitted \in BOOLEAN :
          LET d1 == IF driver.emit_llvm
                    THEN [driver EXCEPT !.files = @ \cup {"ll"}]
                    ELSE driver
          IN driver' =
                IF llPhase = "failed" THEN CompileReturns(driver, "Err")
                ELSE IF driver.emit_ir \/ driver.emit_asm THEN CompileReturns(d1, "Ok")
                ELSE IF ~emitted THEN CompileReturns(d1, "Err")
                ELSE [d1 EXCEPT !.pc = "link_executable", !.files = @ \cup {"o"}]
    /\ UNCHANGED <<program, rtVars, unit, tcVars, llVars, cVars>>

\* link_executable and what compile_with_llvm does after it: the runtime's
\* sources are compiled where they exist, clang links, the object file is
\* removed
LinkExecutable ==
    /\ driver.pc = "link_executable"
    /\ \E yaf_runtime_exists, yaf_runtime_compiled, gc_runtime_exists,
          gc_runtime_compiled, linked \in BOOLEAN :
          LET d1 == IF yaf_runtime_exists
                    THEN [driver EXCEPT !.files = @ \cup {"yaf_runtime.o"}]
                    ELSE driver
              d2 == IF gc_runtime_exists /\ gc_runtime_compiled
                    THEN [d1 EXCEPT !.files = @ \cup {"gc.o"}]
                    ELSE d1
          IN /\ ~yaf_runtime_exists => ~yaf_runtime_compiled
             /\ ~gc_runtime_exists => ~gc_runtime_compiled
             /\ driver' =
                   IF yaf_runtime_exists /\ ~yaf_runtime_compiled
                   THEN CompileReturns(driver, "Err")
                   ELSE IF ~linked THEN CompileReturns(d2, "Err")
                   ELSE CompileReturns([d2 EXCEPT !.files = (@ \cup {"exe"}) \ {"o"}],
                                       "Ok")
    /\ UNCHANGED <<program, rtVars, unit, tcVars, llVars, cVars>>

\* compile_with_c: the generated file is written, clang has accepted or
\* rejected it, the file is removed unless keep_temps
CompileWithC ==
    /\ driver.pc = "compile_with_c"
    /\ cPhase \in {"compiled", "rejected"}
    /\ LET d1 == [driver EXCEPT !.files = @ \cup {"c"}]
       IN driver' =
             IF cPhase = "rejected" THEN CompileReturns(d1, "Err")
             ELSE CompileReturns(
                     [d1 EXCEPT !.files = (IF driver.keep_temps THEN @ ELSE @ \ {"c"})
                                             \cup {"exe"}],
                     "Ok")
    /\ UNCHANGED <<program, rtVars, unit, tcVars, llVars, cVars>>

\* how the operating system reports the executed program: it could not be
\* started, it exited with the status of main's return or of exit(1), or a
\* signal ended it
ChildStatuses == {"not started", "exit 0", "exit 1", "signal"}

\* run_program after compile_program returned Ok: run_cmd.status()?, the
\* removal of the executable, and the result
RunProgram ==
    /\ driver.pc = "run_program"
    /\ \E status \in ChildStatuses :
          LET d == [driver EXCEPT !.child = status]
          IN driver' =
                IF status = "not started" THEN Returned(d, "Err")
                ELSE Returned([d EXCEPT !.files = @ \ {"exe"}],
                              IF status = "exit 0" THEN "Ok" ELSE "Err")
    /\ UNCHANGED <<program, rtVars, unit, tcVars, llVars, cVars>>

\* the process of the compiler: type checking, one backend's lowering, the
\* external tools, and the program executed by run
NextDriver ==
    \/ TCNext
    \/ LLDeclare
    \/ LLGenerateMain
    \/ LLGenerateFunction
    \/ LLVerify
    \/ CGenerate
    \/ CCompile
    \/ CompileProgram
    \/ CompileWithLLVM
    \/ LinkExecutable
    \/ CompileWithC
    \/ RunProgram

SpecDriver == Init /\ [][NextDriver]_vars

\* the artifacts a compilation writes for its caller
OutputArtifacts == {"c", "ll", "o", "exe"}

\* C16: when the compile command returns an error, none of the .c file, the
\* .ll file, the .o file and the executable this compilation wrote is left.
C16_FailedCompilationLeavesNothing ==
    (driver.pc = "returned" /\ driver.command = "compile" /\ driver.compiled = "Err")
        => driver.files \cap OutputArtifacts = {}

\* C17: when run returns after a successful compilation, the temporary
\* executable is gone, however the program ended or failed to start, and a
\* program that exited with status n made run exit with status n.
C17_RunForwardsStatusAndCleansUp ==
    (driver.pc = "returned" /\ driver.command = "run" /\ driver.compiled = "Ok")
        => /\ "exe" \notin driver.files
           /\ driver.child = "exit 0" => driver.exit = 0
           /\ driver.child = "exit 1" => driver.exit = 1

---------------------------------------------------------------------------
(* Names of the storage in the module *)

\* the names of the globals of the module and of the allocas of its functions
StorageNames(g) ==
    {g.global_variables[n].name : n \in DOMAIN g.global_variables}
    \cup UNION {UNION {{f[b].instrs[k].ptr.name :
                           k \in {j \in 1..Len(f[b].instrs) : f[b].instrs[j].op = "alloca"}} :
                       b \in 1..Len(f)} :
                f \in {g.module[fn] : fn \in DOMAIN g.module}}

\* C18: get_unique_var_name never returned the same string twice during the
\* compilation, whatever the base names, and every global and every alloca of
\* the module carries a name it returned.
C18_FreshNames ==
    /\ \A a, b \in 1..Len(llvm.unique_names) :
          a # b => llvm.unique_names[a] # llvm.unique_names[b]
    /\ StorageNames(llvm) \subseteq
          {llvm.unique_names[a] : a \in 1..Len(llvm.unique_names)}

\* C18: a module was built and verified whose globals are x and x_1, with a
\* parameter x_1 and a local y_3: four calls, four names, four storages
C18_Witness ==
    /\ llPhase = "verified"
    /\ llvm.unique_names = <<"x_1", "x_1_2", "x_1_3", "y_3_4">>
    /\ Cardinality(StorageNames(llvm)) = 4

---------------------------------------------------------------------------
(* Resolution of variable names *)

\* the storage the loads and stores of the module's functions use
StorageUsed(g) ==
    UNION {UNION {{f[b].instrs[k].ptr.name :
                      k \in {j \in 1..Len(f[b].instrs) :
                                f[b].instrs[j].op \in {"load", "store"}}} :
                  b \in 1..Len(f)} :
           f \in {g.module[fn] : fn \in DOMAIN g.module}}

\* C19: a name resolved during lowering gave the local binding of the function
\* under lowering when there was one, otherwise the global binding, and a read
\* of a name with neither made the lowering fail on an undefined variable; no
\* function of the native module uses storage that is not a global or an
\* alloca, and the generated C file uses no identifier that nothing declares.
C19_NamesResolveToBindings ==
    /\ \A r \in llvm.resolved :
          /\ r.found = (IF r.local # None THEN r.local ELSE r.global)
          /\ (r.use = "read" /\ r.local = None /\ r.global = None)
                => llvm.err = Some("Undefined variable")
    /\ StorageUsed(llvm) \subseteq StorageNames(llvm)
    /\ \A d \in cBuild.diagnostics : d.error # "undeclared identifier"

---------------------------------------------------------------------------
(* The branches of an if statement in the native module *)

\* the unconditional branches to block merge_bb among the instructions of block
BranchesTo(block, merge_bb) ==
    Cardinality({k \in 1..Len(block.instrs) :
                    /\ block.instrs[k].op = "br"
                    /\ block.instrs[k].target = merge_bb})

\* C21: the block where the lowering of a branch of an if statement ended
\* holds no branch to the merge block when the last statement of the branch
\* is a return (it ends with the ret), and exactly one, its last instruction,
\* in every other case, an absent else branch included.
C21_BranchToMergeIffOpen ==
    \A r \in llvm.branches :
        LET block == llvm.module[r.fn][r.bb]
        IN IF r.returns
           THEN /\ BranchesTo(block, r.merge) = 0
                /\ block.instrs[Len(block.instrs)].op = "ret"
           ELSE /\ BranchesTo(block, r.merge) = 1
                /\ block.instrs[Len(block.instrs)].op = "br"

\* C21: a verified module holds an if whose then branch ended with a return
\* and whose else branch did not, and an if whose then branch went on after a
\* return
C21_Witness ==
    /\ llPhase = "verified"
    /\ \E r1, r2 \in llvm.branches :
          /\ r1.fn = r2.fn /\ r1.merge = r2.merge
          /\ r1.returns /\ ~r2.returns
          /\ BranchesTo(llvm.module[r1.fn][r1.bb], r1.merge) = 0
          /\ BranchesTo(llvm.module[r2.fn][r2.bb], r2.merge) = 1

---------------------------------------------------------------------------
(* The runtime primitives of the binary operators *)

Primitives ==
    {"yaf_add", "yaf_sub", "yaf_mul", "yaf_div", "yaf_mod", "yaf_eq", "yaf_ne",
     "yaf_lt", "yaf_le", "yaf_gt", "yaf_ge"}

\* the program is print(l op r) with an arithmetic or comparison operator, and
\* both backends have lowered it
BinaryLowered ==
    /\ program.functions = <<>>
    /\ Len(program.main) = 1
    /\ program.main[1].k = "Expression"
    /\ program.main[1].expr.k = "FunctionCall"
    /\ program.main[1].expr.name = "print"
    /\ Len(program.main[1].expr.arguments) = 1
    /\ program.main[1].expr.arguments[1].k = "BinaryOp"
    /\ program.main[1].expr.arguments[1].operator \notin {"And", "Or"}
    /\ llPhase = "verified"
    /\ cPhase = "generated"

\* the calls of primitives in main of the native module
PrimitiveCalls ==
    SelectSeq(llvm.module[Runtime("main")][1].instrs,
              LAMBDA instr : instr.op = "call" /\ instr.fn[1] \in Primitives)

\* the expression printed in the generated C file
Printed ==
    cgen.output[CHOOSE i \in 1..Len(cgen.output) : cgen.output[i].c = "print"].args[1]

\* C22: print(l op r), op an arithmetic or comparison operator, is lowered by
\* the native backend to one call of one primitive on the two operands, and by
\* the C backend to one call of the primitive of the same name on the two
\* operands.
C22_OnePrimitivePerOperator ==
    BinaryLowered =>
        /\ Len(PrimitiveCalls) = 1
        /\ Len(PrimitiveCalls[1].args) = 2
        /\ Printed.c = "call"
        /\ Printed.fn = PrimitiveCalls[1].fn
        /\ Len(Printed.args) = 2
        /\ \A i \in 1..2 : \A fn \in CCalls(Printed.args[i]) : fn[1] \notin Primitives

---------------------------------------------------------------------------
(* Definitions in the generated C file *)

\* the lines of the generated file that open a definition or declare a
\* prototype of a user function
LinesOf(kind) ==
    {i \in 1..Len(cgen.output) :
        cgen.output[i].c = kind /\ Len(cgen.output[i].name) = 2}

\* C23: once the C compiler has read the generated file, it has met no second
\* definition of a function, runtime primitive or user function, and every
\* definition of a user function has the parameters of its prototype above.
C23_OneDefinitionPerFunction ==
    cPhase \in {"compiled", "rejected"} =>
        /\ \A d \in cBuild.diagnostics : d.error # "redefinition of function"
        /\ \A i, j \in LinesOf("function") :
              cgen.output[i].name = cgen.output[j].name => i = j
        /\ \A i \in LinesOf("function") :
              \E j \in LinesOf("prototype") :
                 /\ j < i
                 /\ cgen.output[j].name = cgen.output[i].name
                 /\ cgen.output[j].parameters = cgen.output[i].parameters

---------------------------------------------------------------------------
(* Scopes of the variables in the generated C file *)

\* C24: once the C compiler has read the generated file, it has met no
\* assignment to and no use of a variable outside the scope of a declaration
\* of its name, and no second declaration of a name in one scope, in any user
\* function and in main.
C24_VariablesDeclaredInScope ==
    cPhase \in {"compiled", "rejected"} =>
        \A d \in cBuild.diagnostics :
            d.error \notin {"undeclared identifier", "redefinition"}

---------------------------------------------------------------------------
(* Builtin calls: one call checked by the type checker and, once accepted,   *)
(* lowered by each backend                                                  *)

\* arguments of a builtin call
MaxBuiltinArgs == 2

\* the names Parser::parse_primary turns into Expression::BuiltinCall
ParsedBuiltins ==
    {"abs", "max", "min", "pow", "length", "upper", "lower", "concat", "substring",
     "read_file", "write_file", "file_exists", "now", "now_millis", "sleep", "str",
     "int", "float", "input", "input_prompt", "string_to_int", "int_to_string"}

BuiltinCalls ==
    {[fn |-> name, args |-> as, results |-> EmptyMap] :
        name \in ParsedBuiltins,
        as \in UNION {[1..n -> {IntLit(0), StrLit("a")}] : n \in 0..MaxBuiltinArgs}}

\* TypeChecker::check_expression on the call
BuiltinCheck ==
    /\ ~MapHas(unit.results, "typechecker")
    /\ unit' = [unit EXCEPT !.results =
                   MapPut(@, "typechecker",
                          IF CheckExpression(BuiltinCall(unit.fn, unit.args),
                                             EmptyMap, EmptyMap).ok
                          THEN "Ok" ELSE "Err")]
    /\ UNCHANGED <<program, rtVars, driver, tcVars, llVars, cVars>>

\* LLVMCodeGenerator::generate_expression on the call, inside main
BuiltinNative ==
    /\ MapHas(unit.results, "typechecker")
    /\ unit.results["typechecker"] = "Ok"
    /\ ~MapHas(unit.results, "native")
    /\ LET g0 == [LLVMNew EXCEPT !.module = MapPut(@, Runtime("main"),
                                              <<[label |-> "entry", instrs |-> <<>>]>>),
                                 !.insert_block = 1,
                                 !.current_function = Some(Runtime("main"))]
           r  == LLGenerateExpression(g0, BuiltinCall(unit.fn, unit.args))
       IN unit' = [unit EXCEPT !.results =
                      MapPut(@, "native", IF r.g.err = None THEN "Ok" ELSE "Err")]
    /\ UNCHANGED <<program, rtVars, driver, tcVars, llVars, cVars>>

\* CodeGenerator::generate_expression on the call
BuiltinC ==
    /\ MapHas(unit.results, "typechecker")
    /\ unit.results["typechecker"] = "Ok"
    /\ ~MapHas(unit.results, "c")
    /\ LET r == CGenerateExpression(CNew, BuiltinCall(unit.fn, unit.args))
       IN unit' = [unit EXCEPT !.results =
                      MapPut(@, "c", IF r.g.err = None THEN "Ok" ELSE "Err")]
    /\ UNCHANGED <<program, rtVars, driver, tcVars, llVars, cVars>>

InitBuiltins ==
    /\ program = Program(<<>>, <<>>)
    /\ unit \in BuiltinCalls
    /\ driver = NoDriver
    /\ RTIdle
    /\ TCIdle
    /\ LLIdle
    /\ CIdle

NextBuiltins ==
    \/ BuiltinCheck
    \/ BuiltinNative
    \/ BuiltinC

SpecBuiltins == InitBuiltins /\ [][NextBuiltins]_vars

\* C25: a builtin call the type checker accepted was lowered by the native
\* backend and by the C backend without an error.
C25_AcceptedBuiltinsAreLowered ==
    \A backend \in {"native", "c"} :
        MapHas(unit.results, backend) => unit.results[backend] = "Ok"

---------------------------------------------------------------------------
\* Parser (core/parser.rs): parse_block over a stream of tokens.  The tokens
\* are the ones a block of return statements is written with; an IntLiteral
\* carries the value 1.  With no other operator in the stream, each level of
\* parse_expression above parse_term hands on what the level below returned.

MaxTokens == 4

TokenKinds ==
    {"LeftBrace", "RightBrace", "Return", "Semicolon", "IntLiteral", "Minus"}

TokenStreams ==
    UNION {[1..n -> TokenKinds] : n \in 0..MaxTokens}

CurrentToken(tokens, current) ==
    IF current <= Len(tokens) THEN tokens[current] ELSE "Eof"

Advance(tokens, current) ==
    IF current <= Len(tokens) THEN current + 1 ELSE current

Parsed(node, current)    == [ok |-> TRUE,  node |-> node, current |-> current]
ParseError(msg, current) == [ok |-> FALSE, node |-> msg,  current |-> current]

ParsePrimary(tokens, current) ==
    IF CurrentToken(tokens, current) = "IntLiteral"
    THEN Parsed(IntLit(1), Advance(tokens, current))
    ELSE ParseError("Token inesperado", current)

RECURSIVE ParseUnary(_, _)
ParseUnary(tokens, current) ==
    IF CurrentToken(tokens, current) = "Minus"
    THEN LET Operand(r) ==
                 IF r.ok THEN Parsed(UnaryOp("Minus", r.node), r.current) ELSE r
         IN Operand(ParseUnary(tokens, Advance(tokens, current)))
    ELSE ParsePrimary(tokens, current)

RECURSIVE ParseTermRest(_, _)
ParseTermRest(tokens, left) ==
    IF ~left.ok \/ CurrentToken(tokens, left.current) # "Minus" THEN left
    ELSE LET Right(r) ==
                 IF r.ok
                 THEN ParseTermRest(tokens,
                          Parsed(BinaryOp(left.node, "Subtract", r.node), r.current))
                 ELSE r
         IN Right(ParseUnary(tokens, Advance(tokens, left.current)))

ParseTerm(tokens, current) ==
    ParseTermRest(tokens, ParseUnary(tokens, current))

ParseExpression(tokens, current) == ParseTerm(tokens, current)

\* on the token Return
ParseReturnStatement(tokens, current) ==
    LET after == Advance(tokens, current)
        Value(r) == IF r.ok THEN Parsed(Return(Some(r.node)), r.current) ELSE r
    IN IF CurrentToken(tokens, after) \in {"LeftBrace", "Eof"}
       THEN Parsed(Return(None), after)
       ELSE Value(ParseExpression(tokens, after))

OptionalSemicolon(tokens, r) ==
    IF r.ok /\ CurrentToken(tokens, r.current) = "Semicolon"
    THEN [r EXCEPT !.current = Advance(tokens, r.current)]
    ELSE r

ParseStatement(tokens, current) ==
    LET Stmt(r) == IF r.ok THEN Parsed(ExpressionStmt(r.node), r.current) ELSE r
    IN IF CurrentToken(tokens, current) = "Return"
       THEN OptionalSemicolon(tokens, ParseReturnStatement(tokens, current))
       ELSE OptionalSemicolon(tokens, Stmt(ParseExpression(tokens, current)))

\* parse_block: consume(LeftBrace)
ParseBlockOpen ==
    /\ parser.pc = "block"
    /\ parser' =
         IF CurrentToken(parser.tokens, parser.current) = "LeftBrace"
         THEN [parser EXCEPT !.pc = "statements",
                             !.current = Advance(parser.tokens, parser.current)]
         ELSE [parser EXCEPT !.pc = "done", !.err = Some("Se esperaba '{'")]
    /\ UNCHANGED <<program, gc, pool, unit, driver, tcVars, llVars, cVars>>

\* parse_block: one turn of the loop, statements.push(self.parse_statement()?)
ParseBlockStatement ==
    /\ parser.pc = "statements"
    /\ CurrentToken(parser.tokens, parser.current) \notin {"RightBrace", "Eof"}
    /\ LET r == ParseStatement(parser.tokens, parser.current)
           seen == [token |-> CurrentToken(parser.tokens, parser.current),
                    next |-> CurrentToken(parser.tokens, parser.current + 1),
                    result |-> r]
       IN parser' =
            IF r.ok
            THEN [parser EXCEPT !.statements = Append(@, r.node),
                                !.current = r.current,
                                !.last = Some(seen)]
            ELSE [parser EXCEPT !.pc = "done", !.err = Some(r.node),
                                !.last = Some(seen)]
    /\ UNCHANGED <<program, gc, pool, unit, driver, tcVars, llVars, cVars>>

\* parse_block: the loop is over, consume(RightBrace)
ParseBlockClose ==
    /\ parser.pc = "statements"
    /\ CurrentToken(parser.tokens, parser.current) \in {"RightBrace", "Eof"}
    /\ parser' =
         IF CurrentToken(parser.tokens, parser.current) = "RightBrace"
         THEN [parser EXCEPT !.pc = "done",
                             !.current = Advance(parser.tokens, parser.current)]
         ELSE [parser EXCEPT !.pc = "done", !.err = Some("Se esperaba '}'")]
    /\ UNCHANGED <<program, gc, pool, unit, driver, tcVars, llVars, cVars>>

InitParser ==
    /\ program = Program(<<>>, <<>>)
    /\ unit = NoUnit
    /\ driver = NoDriver
    /\ \E tokens \in TokenStreams :
           parser = [tokens |-> tokens, current |-> 1, pc |-> "block",
                     statements |-> <<>>, err |-> None, last |-> None]
    /\ gc = NoGC
    /\ pool = NoPool
    /\ TCIdle
    /\ LLIdle
    /\ CIdle

NextParser ==
    \/ ParseBlockOpen
    \/ ParseBlockStatement
    \/ ParseBlockClose

SpecParser == InitParser /\ [][NextParser]_vars

StartsExpression == {"IntLiteral", "Minus"}

\* C26: a return statement whose next token cannot start an expression parses
\* to Return with no value, and a block made of such a return, with or without
\* a semicolon after it, parses without error.
C26_BareReturnParses ==
    /\ \A seen \in {parser.last[i] : i \in DOMAIN parser.last} :
           (seen.token = "Return" /\ seen.next \notin StartsExpression)
               => seen.result.ok /\ seen.result.node = Return(None)
    /\ (/\ parser.pc = "done"
        /\ parser.tokens \in {<<"LeftBrace", "Return", "RightBrace">>,
                              <<"LeftBrace", "Return", "Semicolon", "RightBrace">>})
           => parser.err = None /\ parser.statements = <<Return(None)>>

---------------------------------------------------------------------------
\* Declarations and assignments checked once, in textual order, with the rules
\* of check_statement, starting from the variables given.
RECURSIVE CheckedOnce(_, _, _)
CheckedOnce(statements, i, variables) ==
    IF i > Len(statements) THEN TRUE
    ELSE LET stmt == statements[i]
             r == CheckExpression(stmt.value, variables, EmptyMap)
         IN IF ~r.ok THEN FALSE
            ELSE IF stmt.k = "Declaration"
            THEN /\ r.type = stmt.var_type
                 /\ ~MapHas(variables, stmt.name)
                 /\ CheckedOnce(statements, i + 1,
                                MapPut(variables, stmt.name, stmt.var_type))
            ELSE IF MapHas(variables, stmt.name)
            THEN /\ variables[stmt.name] = r.type
                 /\ CheckedOnce(statements, i + 1, variables)
            ELSE CheckedOnce(statements, i + 1,
                             MapPut(variables, stmt.name, r.type))

\* C27: check() accepts every program without functions whose top-level
\* statements type-check when processed once, in textual order, from an empty
\* variable scope.
C27_TopLevelCheckedOnce ==
    (/\ tcPhase = "done"
     /\ program \in TopLevelPrograms
     /\ CheckedOnce(program.main, 1, EmptyMap))
        => tcErr = None

---------------------------------------------------------------------------
\* GarbageCollector (runtime/gc.rs): one collector called by several threads.
\* A thread takes a lock in one step and blocks while another thread holds it;
\* the body of a call runs with the locks it has taken and drops them on return.

MaxAllocations == 2

Threads == {"t1", "t2"}

Sizes == {8}

NoThread == ""

AllocationInfo(size) == [size |-> size, marked |-> FALSE]

\* *next_id += 1
NextIdKept(id) == id

NextId(id) == id + 1

\* the closure of retain: an allocation stays when it is marked, unmarked again
SweptKeepingMarks(allocations) ==
    [id \in {i \in DOMAIN allocations : allocations[i].marked} |-> allocations[id]]

Swept(allocations) ==
    [id \in {i \in DOMAIN allocations : allocations[i].marked} |->
        [allocations[id] EXCEPT !.marked = FALSE]]

RECURSIVE SumOfSizes(_, _)
SumOfSizes(allocations, ids) ==
    IF ids = {} THEN 0
    ELSE LET id == CHOOSE i \in ids : TRUE
         IN allocations[id].size + SumOfSizes(allocations, ids \ {id})

GCOperations ==
    {"register_allocation", "mark_allocation", "sweep", "allocation_count",
     "total_allocated"}

GCArguments(op) ==
    CASE op = "register_allocation" -> Sizes
      [] op = "mark_allocation" -> 0..(MaxAllocations - 1)
      [] OTHER -> {0}

GCNew ==
    [allocations |-> EmptyMap, next_id |-> 0,
     allocations_lock |-> NoThread, next_id_lock |-> NoThread,
     threads |-> [t \in Threads |-> [pc |-> "idle", op |-> "", arg |-> 0]],
     \* history
     registered |-> <<>>,     \* [id, thread] of each register_allocation returned
     overwritten |-> FALSE,   \* an insert replaced an allocation
     removed |-> {},          \* ids a sweep has removed
     survived |-> {},         \* ids the previous sweep kept
     marked |-> {},           \* ids marked since the previous sweep
     sweeps |-> FALSE,        \* a sweep has run
     \* the call that returned last when it read the table: what it found
     \* and what it returned
     last |-> [op |-> "", before |-> EmptyMap, marked |-> {}, survived |-> {},
               second |-> FALSE, ret |-> 0]]

NoSweep ==
    [op |-> "", before |-> EmptyMap, marked |-> {}, survived |-> {},
     second |-> FALSE, ret |-> 0]

GCUnchanged == UNCHANGED <<program, parser, pool, unit, driver, tcVars, llVars, cVars>>

\* a thread calls one of the methods
GCCall(t) ==
    /\ gc.threads[t].pc = "idle"
    /\ \E op \in GCOperations : \E arg \in GCArguments(op) :
           /\ op = "register_allocation" => gc.next_id < MaxAllocations
           /\ gc' = [gc EXCEPT !.threads[t] =
                        [pc |-> "lock_allocations", op |-> op, arg |-> arg]]
    /\ GCUnchanged

\* self.allocations.lock().unwrap()
GCLockAllocations(t) ==
    /\ gc.threads[t].pc = "lock_allocations"
    /\ gc.allocations_lock = NoThread
    /\ gc' = [gc EXCEPT !.allocations_lock = t,
                        !.threads[t].pc =
                            IF gc.threads[t].op = "register_allocation"
                            THEN "lock_next_id" ELSE "locked"]
    /\ GCUnchanged

\* self.next_id.lock().unwrap()
GCLockNextId(t) ==
    /\ gc.threads[t].pc = "lock_next_id"
    /\ gc.next_id_lock = NoThread
    /\ gc' = [gc EXCEPT !.next_id_lock = t, !.threads[t].pc = "locked"]
    /\ GCUnchanged

GCLocked(t, op) ==
    /\ gc.threads[t].pc = "locked"
    /\ gc.threads[t].op = op

GCReturn(g, t) ==
    [g EXCEPT !.threads[t] = [pc |-> "idle", op |-> "", arg |-> 0],
              !.allocations_lock = NoThread,
              !.next_id_lock = IF @ = t THEN NoThread ELSE @]

RegisterAllocation(t) ==
    /\ GCLocked(t, "register_allocation")
    /\ LET id == gc.next_id
       IN gc' = GCReturn(
                  [gc EXCEPT !.next_id = NextId(id),
                             !.allocations =
                                 MapPut(@, id, AllocationInfo(gc.threads[t].arg)),
                             !.registered = Append(@, [id |-> id, thread |-> t]),
                             !.overwritten = @ \/ MapHas(gc.allocations, id),
                             !.last = NoSweep], t)
    /\ GCUnchanged

MarkAllocation(t) ==
    /\ GCLocked(t, "mark_allocation")
    /\ LET id == gc.threads[t].arg
       IN gc' = GCReturn(
                  IF MapHas(gc.allocations, id)
                  THEN [gc EXCEPT !.allocations[id].marked = TRUE,
                                  !.marked = @ \cup {id},
                                  !.last = NoSweep]
                  ELSE [gc EXCEPT !.last = NoSweep], t)
    /\ GCUnchanged

Sweep(t) ==
    /\ GCLocked(t, "sweep")
    /\ LET after == Swept(gc.allocations)
           freed_count == Cardinality(DOMAIN gc.allocations \ DOMAIN after)
       IN gc' = GCReturn(
                  [gc EXCEPT !.allocations = after,
                             !.removed = @ \cup (DOMAIN gc.allocations \ DOMAIN after),
                             !.survived = DOMAIN after,
                             !.marked = {},
                             !.sweeps = TRUE,
                             !.last = [op |-> "sweep", before |-> gc.allocations,
                                       marked |-> gc.marked,
                                       survived |-> gc.survived,
                                       second |-> gc.sweeps,
                                       ret |-> freed_count]], t)
    /\ GCUnchanged

AllocationCount(t) ==
    /\ GCLocked(t, "allocation_count")
    /\ gc' = GCReturn([gc EXCEPT !.last =
                  [NoSweep EXCEPT !.op = "allocation_count",
                                  !.ret = Cardinality(DOMAIN gc.allocations)]], t)
    /\ GCUnchanged

TotalAllocated(t) ==
    /\ GCLocked(t, "total_allocated")
    /\ gc' = GCReturn([gc EXCEPT !.last =
                  [NoSweep EXCEPT !.op = "total_allocated",
                                  !.ret = SumOfSizes(gc.allocations,
                                                     DOMAIN gc.allocations)]], t)
    /\ GCUnchanged

InitGC ==
    /\ program = Program(<<>>, <<>>)
    /\ unit = NoUnit
    /\ driver = NoDriver
    /\ parser = NoParser
    /\ gc = GCNew
    /\ pool = NoPool
    /\ TCIdle
    /\ LLIdle
    /\ CIdle

NextGC ==
    \E t \in Threads :
        \/ GCCall(t)
        \/ GCLockAllocations(t)
        \/ GCLockNextId(t)
        \/ RegisterAllocation(t)
        \/ MarkAllocation(t)
        \/ Sweep(t)
        \/ AllocationCount(t)
        \/ TotalAllocated(t)

SpecGC == InitGC /\ [][NextGC]_vars

\* C28: a sweep removes exactly the allocations not marked since the previous
\* sweep, returns how many it removed and leaves every survivor unmarked; a
\* sweep that follows a sweep with no mark in between leaves no allocation.
C28_SweepRemovesUnmarked ==
    gc.last.op = "sweep" =>
        /\ DOMAIN gc.allocations = DOMAIN gc.last.before \cap gc.last.marked
        /\ gc.last.ret = Cardinality(DOMAIN gc.last.before \ gc.last.marked)
        /\ \A id \in DOMAIN gc.allocations :
               /\ ~gc.allocations[id].marked
               /\ gc.allocations[id].size = gc.last.before[id].size
        /\ (gc.last.second /\ gc.last.marked = {})
               => Cardinality(DOMAIN gc.allocations) = 0

\* C28 happens: an allocation survived one sweep, nothing was marked after it,
\* and the next sweep removed it and left the collector empty
C28_Witness ==
    /\ gc.last.op = "sweep"
    /\ gc.last.second
    /\ gc.last.marked = {}
    /\ gc.last.ret > 0
    /\ DOMAIN gc.last.before \cap gc.last.survived # {}
    /\ gc.allocations = EmptyMap

GCBlocked(t) ==
    \/ gc.threads[t].pc = "lock_allocations" /\ gc.allocations_lock # NoThread
    \/ gc.threads[t].pc = "lock_next_id" /\ gc.next_id_lock # NoThread

\* C29: under every interleaving the ids register_allocation returned are
\* pairwise distinct, every registered allocation is in the table until a
\* sweep removes it and none was replaced by another registration, and while
\* some call is in progress some thread inside a call can take its next step.
C29_ConcurrentRegistrations ==
    /\ \A i, j \in DOMAIN gc.registered :
           i # j => gc.registered[i].id # gc.registered[j].id
    /\ \A i \in DOMAIN gc.registered :
           MapHas(gc.allocations, gc.registered[i].id)
               \/ gc.registered[i].id \in gc.removed
    /\ ~gc.overwritten
    /\ (\E t \in Threads : gc.threads[t].pc # "idle")
           => \E t \in Threads : gc.threads[t].pc # "idle" /\ ~GCBlocked(t)

\* C29 happens: two threads have each registered an allocation, both are in
\* the table, and one thread waits for the lock another holds
C29_Witness ==
    /\ \E i, j \in DOMAIN gc.registered :
           /\ gc.registered[i].thread # gc.registered[j].thread
           /\ MapHas(gc.allocations, gc.registered[i].id)
           /\ MapHas(gc.allocations, gc.registered[j].id)
    /\ \E t \in Threads : GCBlocked(t)

---------------------------------------------------------------------------
\* MemoryPool (runtime/memory.rs).  The allocator returns the addresses
\* 1, 2, ... and has no memory left after MaxBlocks blocks; a caller may pass
\* any address to return_block, one the pool never allocated included.

MaxBlocks == 2

MaxFree == 3

Pointers == 1..(MaxBlocks + 1)

\* allocate_block: [ok, pool]
AllocateBlock(p) ==
    IF Len(p.blocks) >= MaxBlocks
    THEN [ok |-> FALSE, pool |-> p]
    ELSE LET ptr == Len(p.blocks) + 1
         IN [ok |-> TRUE,
             pool |-> [p EXCEPT !.blocks = Append(@, ptr),
                                !.free_list = Append(@, ptr)]]

RECURSIVE AllocateBlocks(_, _)
AllocateBlocks(p, n) ==
    IF n = 0 THEN p ELSE AllocateBlocks(AllocateBlock(p).pool, n - 1)

\* MemoryPool::new(block_size, initial_blocks)
PoolNew(block_size, initial_blocks) ==
    AllocateBlocks(
        [block_size |-> block_size, blocks |-> <<>>, free_list |-> <<>>,
         \* history
         held |-> {},             \* blocks handed out and not returned since
         handed_held |-> FALSE,   \* get_block returned a block that was held
         last |-> [op |-> "", ok |-> TRUE, ret |-> 0]],
        initial_blocks)

\* free_list.pop().unwrap()
Pop(p) == [p EXCEPT !.free_list = SubSeq(@, 1, Len(@) - 1)]

PoolUnchanged == UNCHANGED <<program, parser, gc, unit, driver, tcVars, llVars, cVars>>

GetBlock ==
    /\ LET r == IF pool.free_list = <<>> THEN AllocateBlock(pool)
                ELSE [ok |-> TRUE, pool |-> pool]
           ptr == r.pool.free_list[Len(r.pool.free_list)]
       IN pool' =
            IF ~r.ok
            THEN [pool EXCEPT !.last = [op |-> "get_block", ok |-> FALSE, ret |-> 0]]
            ELSE [Pop(r.pool) EXCEPT
                      !.held = @ \cup {ptr},
                      !.handed_held = @ \/ ptr \in pool.held,
                      !.last = [op |-> "get_block", ok |-> TRUE, ret |-> ptr]]
    /\ PoolUnchanged

ReturnBlock ==
    /\ Len(pool.free_list) < MaxFree
    /\ \E ptr \in Pointers :
           pool' = [pool EXCEPT !.free_list = Append(@, ptr),
                                !.held = @ \ {ptr},
                                !.last = [op |-> "return_block", ok |-> TRUE,
                                          ret |-> ptr]]
    /\ PoolUnchanged

\* stats(): blocks.len() - free_list.len() on usize panics when overflow checks
\* are compiled in and wraps otherwise
PoolStats ==
    /\ LET total_blocks == Len(pool.blocks)
           free_blocks == Len(pool.free_list)
       IN \E checked \in BOOLEAN :
              pool' = [pool EXCEPT !.last =
                          IF free_blocks > total_blocks /\ checked
                          THEN [op |-> "stats", ok |-> FALSE, ret |-> 0]
                          ELSE [op |-> "stats", ok |-> TRUE,
                                ret |-> (total_blocks - free_blocks) % (2 ^ I64Bits)]]
    /\ PoolUnchanged

InitPool ==
    /\ program = Program(<<>>, <<>>)
    /\ unit = NoUnit
    /\ driver = NoDriver
    /\ parser = NoParser
    /\ gc = NoGC
    /\ \E initial_blocks \in 0..MaxBlocks : pool = PoolNew(8, initial_blocks)
    /\ TCIdle
    /\ LLIdle
    /\ CIdle

NextPool ==
    \/ GetBlock
    \/ ReturnBlock
    \/ PoolStats

SpecPool == InitPool /\ [][NextPool]_vars

\* C30: the free blocks never outnumber the allocated blocks, so used_blocks
\* in stats is total_blocks - free_blocks with no underflow, and get_block
\* never hands out a block that is held since an earlier get_block.
C30_FreeBlocksWithinAllocated ==
    /\ Len(pool.free_list) <= Len(pool.blocks)
    /\ pool.last.op = "stats" =>
           /\ pool.last.ok
           /\ pool.last.ret = Len(pool.blocks) - Len(pool.free_list)
    /\ ~pool.handed_held

=============================================================================
